---- MODULE Spec2Model ----
(***************************************************************************)
(* Session, authentication and request layer of the lab client:            *)
(*   src/src/clients/auth_manager.py   (LabAuthManager)                    *)
(*   src/src/clients/base_client.py    (LabDeviceClient)                   *)
(*   src/src/clients/lab_overview_client.py (LabOverviewClient)            *)
(*                                                                         *)
(* Spec   : one single-threaded program holding one LabDeviceClient and    *)
(*          two LabAuthManager instances for the same server that share    *)
(*          one token file.  One call runs at a time; it advances by one   *)
(*          step per network reply.  The code between two network calls    *)
(*          (token file reads and writes included) is one step.            *)
(* FsSpec : the token file itself, with _write_file and _read_file of      *)
(*          several processes interleaved system call by system call.      *)
(***************************************************************************)
EXTENDS Integers, Sequences, FiniteSets, TLC

VARIABLES now, file, mgr, client, call, minted, lifetimes,
          inodes, tokenPath, tmpPath, wr, rd,
          flow, dev, trip, proc, req

vars == <<now, file, mgr, client, call, minted, lifetimes,
          inodes, tokenPath, tmpPath, wr, rd,
          flow, dev, trip, proc, req>>

mainVars == <<now, file, mgr, client, call, minted, lifetimes>>
fsVars == <<inodes, tokenPath, tmpPath, wr, rd>>
sideVars == <<flow, dev, trip, proc, req>>

----------------------------------------------------------------------------
(* Bounds of the model *)

MaxTicks == 2
MaxMinted == 2
MaxPolls == 1

(* _expired's default skew, in seconds *)
Skew == 30

(* One step of the clock is one skew window. *)
TickSeconds == Skew

----------------------------------------------------------------------------
(* Values *)

Managers == {"m1", "m2"}
Origins == {"A", "B"}

(* LabAuthManager.base_url of each instance: both talk to the same server. *)
BaseUrl(m) == "A"

(* An optional value: <<>> is Python's None (or an absent key), <<v>> is v. *)
None == <<>>
Some(v) == <<v>>
Get(o) == o[1]

(* LabAuthManager.__init__ *)
NewManager(interactive) == [session |-> None, interactive |-> interactive]

(* A login is a string; "" stands for None, the empty string and an absent *)
(* "user"/"login" key alike: all are falsy where the code tests them.      *)
NoLogin == ""
Logins == {"alice", "bob"}

(* <<access_token_expires_in, refresh_token_expires_in>> the server hands   *)
(* out: it is configured with a short-lived pair or a long-lived pair      *)
(* (the variable lifetimes).                                               *)
Ttls == {<<40, 90>>, <<3600, 7200>>}

(* A timestamp of 0 stands for a missing or null timestamp as well. *)
Expired_NoSkew(timestamp, t) ==
    IF timestamp = 0 THEN TRUE ELSE timestamp <= t

Expired(timestamp, t) ==
    IF timestamp = 0 THEN TRUE ELSE timestamp <= t + Skew

(* A raw provider response: issued_at = -1 stands for an absent key. *)
AbsentIssued == -1

Raw(n, login, attl, rttl, issued) ==
    [user |-> login, issued_at |-> issued,
     access_token |-> <<"at", n>>, access_token_expires_in |-> attl,
     refresh_token |-> <<"rt", n>>, refresh_token_expires_in |-> rttl]

NormalizeSession(raw, t) ==
    LET issued == IF raw.issued_at = AbsentIssued THEN t ELSE raw.issued_at
    IN  [user |-> raw.user,
         issued_at |-> issued,
         access_token |-> raw.access_token,
         access_token_expires_at |-> issued + raw.access_token_expires_in,
         refresh_token |-> raw.refresh_token,
         refresh_token_expires_at |-> issued + raw.refresh_token_expires_in]

----------------------------------------------------------------------------
(* The token file as the single-threaded program sees it: state is "ok"    *)
(* (valid JSON for the mapping origin -> session), "missing" or            *)
(* "corrupt" (not valid JSON or unreadable); text is what json.dump wrote.  *)

EmptyData == [o \in Origins |-> None]

(* json.dump and json.load of the token file: a JSON value is a pair of    *)
(* its type and its content, a JSON object a record of such pairs.  A      *)
(* token is a string, a timestamp a number, "user" an object with "login". *)
JStr(v) == <<"string", v>>
JNum(n) == <<"number", n>>

DumpSession(session) ==
    [user |-> [login |-> JStr(session.user)],
     issued_at |-> JNum(session.issued_at),
     access_token |-> JStr(session.access_token),
     access_token_expires_at |-> JNum(session.access_token_expires_at),
     refresh_token |-> JStr(session.refresh_token),
     refresh_token_expires_at |-> JNum(session.refresh_token_expires_at)]

LoadSession_Confused(json) ==
    [user |-> json.user.login[2],
     issued_at |-> json.issued_at[2],
     access_token |-> json.access_token[2],
     access_token_expires_at |-> json.access_token_expires_at[2],
     refresh_token |-> json.refresh_token[2],
     refresh_token_expires_at |-> json.access_token_expires_at[2]]

LoadSession(json) ==
    [user |-> json.user.login[2],
     issued_at |-> json.issued_at[2],
     access_token |-> json.access_token[2],
     access_token_expires_at |-> json.access_token_expires_at[2],
     refresh_token |-> json.refresh_token[2],
     refresh_token_expires_at |-> json.refresh_token_expires_at[2]]

JsonDump(data) ==
    [o \in Origins |-> IF data[o] = None THEN None ELSE Some(DumpSession(Get(data[o])))]

JsonLoad(text) ==
    [o \in Origins |-> IF text[o] = None THEN None ELSE Some(LoadSession(Get(text[o])))]

ReadFile(f) == IF f.state = "ok" THEN JsonLoad(f.text) ELSE EmptyData

WriteFile(data) == [state |-> "ok", text |-> JsonDump(data)]

(* A configuration cfg is what a piece of code reads and writes:           *)
(*   now, file, mgr (each manager's _session and interactive), client,    *)
(*   call (the running call).                                              *)

ClearSession_KeepsFile(cfg, m) ==
    [cfg EXCEPT !.mgr[m].session = None]

ClearSession(cfg, m) ==
    LET data == ReadFile(cfg.file)
        c1 == IF data[BaseUrl(m)] # None
              THEN [cfg EXCEPT !.file = WriteFile([data EXCEPT ![BaseUrl(m)] = None])]
              ELSE cfg
    IN  [c1 EXCEPT !.mgr[m].session = None]

Persist_Fresh(cfg, m, session) ==
    [cfg EXCEPT !.file = WriteFile([EmptyData EXCEPT ![BaseUrl(m)] = Some(session)])]

Persist(cfg, m, session) ==
    LET payload == ReadFile(cfg.file)
    IN  [cfg EXCEPT !.file = WriteFile([payload EXCEPT ![BaseUrl(m)] = Some(session)])]

LoadSessionFromDisk_NoClear(cfg, m) ==
    LET data == ReadFile(cfg.file)
        session == data[BaseUrl(m)]
    IN  IF session # None /\ Expired(Get(session).refresh_token_expires_at, cfg.now)
        THEN <<cfg, None>>
        ELSE <<cfg, session>>

(* Returns <<cfg', session or None>>. *)
LoadSessionFromDisk(cfg, m) ==
    LET data == ReadFile(cfg.file)
        session == data[BaseUrl(m)]
    IN  IF session # None /\ Expired(Get(session).refresh_token_expires_at, cfg.now)
        THEN <<ClearSession(cfg, m), None>>
        ELSE <<cfg, session>>

(* self._session or self._load_session_from_disk() *)
CachedOrLoaded(cfg, m) ==
    IF cfg.mgr[m].session # None THEN <<cfg, cfg.mgr[m].session>> ELSE LoadSessionFromDisk(cfg, m)

UserLogin_DiskOnly(cfg, m) ==
    LET r == LoadSessionFromDisk(cfg, m)
    IN  IF r[2] = None THEN <<r[1], NoLogin>> ELSE <<r[1], Get(r[2]).user>>

(* Returns <<cfg', login>>. *)
UserLogin(cfg, m) ==
    LET r == CachedOrLoaded(cfg, m)
    IN  IF r[2] = None THEN <<r[1], NoLogin>> ELSE <<r[1], Get(r[2]).user>>

----------------------------------------------------------------------------
(* HTTP replies of the device server and what _json_or_raise makes of them *)

Statuses == {200, 401, 403, 500}

(* A response body: text that is not JSON, a JSON list, or a JSON object   *)
(* with the given keys; payload["detail"] = "D" and payload["error"] = "E" *)
Body(kind, keys) == [kind |-> kind, keys |-> keys]
Bodies == {Body("text", {}), Body("list", {})}
          \cup {Body("dict", k) : k \in SUBSET {"detail", "error"}}

NoBody == Body("none", {})
Resp(status, body) == [status |-> status, body |-> body]
NoResp == Resp(0, NoBody)

(* What a call ends with: kind "return" or the exception class raised.     *)
Result(kind, msg, status, bearer, resp) ==
    [kind |-> kind, msg |-> msg, status |-> status, bearer |-> bearer, resp |-> resp]
NoResult == Result("none", <<>>, 0, None, NoResp)
Raise(kind, msg, status) == Result(kind, msg, status, None, NoResp)

(* The inner try of _json_or_raise (lines 101-106): what it raises, if     *)
(* anything.  resp.json() raises ValueError on a body that is not JSON.    *)
InnerTry(resp) ==
    IF resp.body.kind = "text"
    THEN Raise("ValueError", <<>>, 0)
    ELSE IF resp.body.kind = "dict" /\ "detail" \in resp.body.keys
    THEN Raise("RuntimeError", <<"Server error", "D">>, 0)
    ELSE IF resp.body.kind = "dict" /\ "error" \in resp.body.keys
    THEN Raise("RuntimeError", <<"Server error", "E">>, 0)
    ELSE NoResult

(* ValueError and RuntimeError are both subclasses of Exception. *)
IsException(r) == r.kind \in {"ValueError", "RuntimeError"}

JsonOrRaise(resp) ==
    IF resp.status >= 400
    THEN LET inner == InnerTry(resp)
             (* except Exception: pass *)
             escaped == IF IsException(inner) THEN NoResult ELSE inner
         IN  IF escaped.kind # "none"
             THEN escaped
             ELSE Result("RuntimeError", <<"HTTP">>, resp.status, None, resp)
    ELSE IF resp.body.kind = "text"
    THEN Raise("JSONDecodeError", <<>>, 0)
    ELSE Result("return", <<>>, resp.status, None, resp)

----------------------------------------------------------------------------
(* The running call.                                                       *)
(*   op       "authorization_header", "user_login", "reset_session" (of    *)
(*            manager m) or "request" (of the client, through its manager) *)
(*   pc       the network reply the call waits for: "refresh" (POST        *)
(*            /auth/token), "start" (POST /auth/device/start), "poll"      *)
(*            (POST /auth/device/poll), "http" (the device request), or    *)
(*            "done"                                                       *)
(*   force    force_login of _ensure_session                               *)
(*   attempts the local of _perform_request                                *)
(*   hdr      the headers being built by _headers                          *)
(*   session  the local of _ensure_session whose refresh_token the last    *)
(*            POST /auth/token carried                                     *)
(*   login    what user_login() returned                                   *)
(*   result   what the call returned or raised                             *)
(* and, kept for the properties only:                                      *)
(*   log      the requests sent and the reset_session() calls made so far  *)
(*   replies  the replies received so far: endpoint and status, and for    *)
(*            the last one its body too                                    *)
(*   sent     the headers of every device request sent so far              *)
(*   enc      the session with an expired refresh token that the call      *)
(*            came across when it began, in the cache or on disk           *)

Hdr(xuser, debug, bearer) == [xuser |-> xuser, debug |-> debug, bearer |-> bearer]
NoHdr == Hdr(NoLogin, FALSE, None)

(* A reply: status 0 is a transport failure (no response at all); json     *)
(* tells whether the body parses as JSON.                                  *)
Reply(to, status, json, body) ==
    [to |-> to, status |-> status, json |-> json, body |-> body]

NewCall(op, m, force) ==
    [op |-> op, m |-> m, pc |-> "done", attempts |-> 0, force |-> force,
     hdr |-> NoHdr, session |-> None, login |-> NoLogin, result |-> NoResult,
     polls |-> 0, log |-> <<>>, replies |-> <<>>, sent |-> <<>>, enc |-> None]

(* No client constructed yet. *)
NoClient ==
    [given |-> NoLogin, user |-> NoLogin, debug |-> FALSE, auth |-> None,
     kind |-> "device", disabled |-> FALSE]

Finish(cfg, result) ==
    [cfg EXCEPT !.call.pc = "done", !.call.result = result]

Send(cfg, what, pc) ==
    [cfg EXCEPT !.call.pc = pc, !.call.log = Append(@, what)]

Received(cfg, reply) ==
    LET earlier == [i \in DOMAIN cfg.call.replies |->
                       [cfg.call.replies[i] EXCEPT !.body = NoBody, !.json = FALSE]]
    IN  [cfg EXCEPT !.call.replies = Append(earlier, reply)]

(* requests.request(method, url, headers=self._headers(), ...) once the    *)
(* headers are built: base_client.py lines 183-189.                        *)
SendHttp(cfg) ==
    LET c1 == Send(cfg, "http", "http")
    IN  [c1 EXCEPT !.call.sent = Append(@, cfg.call.hdr)]

(* _headers after authorization_header() returned (lines 80-85). *)
HeadersAfterAuth(cfg, session) ==
    LET m == cfg.call.m
        c1 == [cfg EXCEPT !.call.hdr.bearer = Some(session.access_token)]
    IN  IF c1.call.hdr.xuser = NoLogin
        THEN LET r == UserLogin(c1, m)
                 c2 == r[1]
                 login == r[2]
             IN  IF login # NoLogin
                 THEN [c2 EXCEPT !.call.hdr.xuser = login, !.client.user = login]
                 ELSE c2
        ELSE c1

(* _ensure_session returned `session`: back in the caller. *)
EnsureReturn(cfg, session) ==
    IF cfg.call.op = "authorization_header"
    THEN Finish(cfg, Result("return", <<"Bearer">>, 0, Some(session.access_token), NoResp))
    ELSE SendHttp(HeadersAfterAuth(cfg, session))

(* _ensure_session raised exc (an AuthError or AuthHttpError): _headers    *)
(* wraps it in a RuntimeError, authorization_header lets it through.       *)
EnsureRaise(cfg, exc) ==
    IF cfg.call.op = "authorization_header"
    THEN Finish(cfg, exc)
    ELSE Finish(cfg, Raise("RuntimeError",
                           <<"Authentication failed", exc.kind>> \o exc.msg, exc.status))

AuthRequired == Raise("AuthError", <<"Authentication required">>, 0)

(* _ensure_session from line 88 on, up to the first request of             *)
(* _interactive_login.                                                     *)
EnsureLogin_Always(cfg) == Send(cfg, "start", "start")

EnsureLogin(cfg) ==
    IF ~cfg.mgr[cfg.call.m].interactive
    THEN EnsureRaise(cfg, AuthRequired)
    ELSE Send(cfg, "start", "start")

(* The session line 71 (or line 55) comes across: the cached one, else the *)
(* one on disk.                                                            *)
CameAcross(cfg, m) ==
    IF cfg.mgr[m].session # None THEN cfg.mgr[m].session
    ELSE ReadFile(cfg.file)[BaseUrl(m)]

NoteExpired(cfg, m) ==
    LET s == CameAcross(cfg, m)
    IN  IF s # None /\ Get(s).refresh_token_expires_at <= cfg.now + Skew
        THEN [cfg EXCEPT !.call.enc = s]
        ELSE cfg

EnsureSession_KeepForced(cfg) ==
    LET m == cfg.call.m
        r == CachedOrLoaded(cfg, m)
        c2 == r[1]
        session == r[2]
    IN  IF session # None /\ ~Expired(Get(session).access_token_expires_at, c2.now)
        THEN EnsureReturn([c2 EXCEPT !.mgr[m].session = session], Get(session))
        ELSE IF session # None /\ ~Expired(Get(session).refresh_token_expires_at, c2.now)
        THEN Send([c2 EXCEPT !.call.session = session], "token", "refresh")
        ELSE EnsureLogin(c2)

(* _ensure_session, lines 69-76, up to its first network request. *)
EnsureSession(cfg) ==
    LET m == cfg.call.m
        c1 == IF cfg.call.force THEN ClearSession(cfg, m) ELSE cfg
        r == CachedOrLoaded(c1, m)
        c2 == r[1]
        session == r[2]
    IN  IF session # None /\ ~Expired(Get(session).access_token_expires_at, c2.now)
        THEN EnsureReturn([c2 EXCEPT !.mgr[m].session = session], Get(session))
        ELSE IF session # None /\ ~Expired(Get(session).refresh_token_expires_at, c2.now)
        THEN Send([c2 EXCEPT !.call.session = session], "token", "refresh")
        ELSE EnsureLogin(c2)

(* _headers, lines 73-80, up to the first network request it causes. *)
Headers(cfg) ==
    LET c1 == [cfg EXCEPT !.call.hdr = Hdr(cfg.client.user, cfg.client.debug, None)]
    IN  IF c1.client.auth # None
        THEN EnsureSession(c1)
        ELSE SendHttp(c1)

----------------------------------------------------------------------------
(* LabAuthManager._request, lines 188-200: what it raises for a reply, or  *)
(* a "return".                                                             *)

(* LabAuthManager._extract_detail, lines 202-212: payload["detail"] is     *)
(* "D", payload["error"] "E", payload["message"] "M"; resp.text is "text". *)
ExtractDetail_ErrorFirst(body) ==
    IF body.kind = "dict" /\ "error" \in body.keys THEN "E"
    ELSE IF body.kind = "dict" /\ "detail" \in body.keys THEN "D"
    ELSE IF body.kind = "dict" /\ "message" \in body.keys THEN "M"
    ELSE "text"

ExtractDetail(body) ==
    IF body.kind = "dict" /\ "detail" \in body.keys THEN "D"
    ELSE IF body.kind = "dict" /\ "error" \in body.keys THEN "E"
    ELSE IF body.kind = "dict" /\ "message" \in body.keys THEN "M"
    ELSE "text"

(* The bodies of the error replies of the auth endpoints: text that is not *)
(* JSON, a JSON list, or a JSON object with some of the three keys.        *)
AuthBodies ==
    {Body("text", {}), Body("list", {})}
    \cup {Body("dict", k) : k \in SUBSET {"detail", "error", "message"}}

AuthRequest(reply) ==
    IF reply.status = 0
    THEN Raise("AuthError", <<"Failed to reach">>, 0)
    ELSE IF reply.status >= 400
    THEN Raise("AuthHttpError", <<ExtractDetail(reply.body)>>, reply.status)
    ELSE IF ~reply.json
    THEN Raise("AuthError", <<"Invalid JSON response">>, 0)
    ELSE Result("return", <<>>, reply.status, None, NoResp)

(* The refresh endpoint's error statuses are told apart by line 83; those  *)
(* of the device-code endpoints are not told apart anywhere.               *)
AuthStatuses(to) == IF to = "token" THEN {400, 401, 500} ELSE {500}

(* The replies of an auth endpoint that make _request raise. *)
FailedReplies(to) ==
    {Reply(to, s, TRUE, NoBody) : s \in AuthStatuses(to)}
    \cup {Reply(to, 0, FALSE, NoBody), Reply(to, 200, FALSE, NoBody)}

EnsureStore_CacheOnly(cfg, session) ==
    EnsureReturn([cfg EXCEPT !.mgr[cfg.call.m].session = Some(session)], session)

(* _ensure_session, lines 79-81 and 94-96: persist, cache, return. *)
EnsureStore(cfg, session) ==
    LET m == cfg.call.m
        c1 == Persist(cfg, m, session)
    IN  EnsureReturn([c1 EXCEPT !.mgr[m].session = Some(session)], session)

(* _ensure_session, lines 82-86: the except clause around _refresh. *)
RefreshFailed_ClearAlways(cfg, exc) ==
    IF exc.kind = "AuthHttpError"
    THEN EnsureLogin(ClearSession(cfg, cfg.call.m))
    ELSE EnsureRaise(cfg, exc)

RefreshFailed(cfg, exc) ==
    IF exc.kind = "AuthHttpError" /\ exc.status \in {400, 401}
    THEN EnsureLogin(ClearSession(cfg, cfg.call.m))
    ELSE EnsureRaise(cfg, exc)

(* LabOverviewClient._json_or_raise, lines 59-61. *)
OverviewJsonOrRaise(resp) ==
    IF resp.status >= 400
    THEN Result("HTTPError", <<>>, resp.status, None, resp)
    ELSE IF resp.body.kind = "text"
    THEN Raise("JSONDecodeError", <<>>, 0)
    ELSE Result("return", <<>>, resp.status, None, resp)

ClientJsonOrRaise(cfg, resp) ==
    IF cfg.client.kind = "overview" THEN OverviewJsonOrRaise(resp) ELSE JsonOrRaise(resp)

(* _perform_request, lines 193-201, and the caller's _json_or_raise. *)
PerformRequestReply_RetryAlways(cfg, resp) ==
    IF resp.status = 401 /\ cfg.client.auth # None
    THEN LET c1 == ClearSession(cfg, cfg.call.m)
             c2 == [c1 EXCEPT !.call.log = Append(@, "reset"),
                              !.call.attempts = @ + 1]
         IN  Headers(c2)
    ELSE Finish(cfg, ClientJsonOrRaise(cfg, resp))

PerformRequestReply_RetryErrors(cfg, resp) ==
    IF resp.status >= 400 /\ cfg.call.attempts = 0
    THEN LET c1 == ClearSession(cfg, cfg.call.m)
             c2 == [c1 EXCEPT !.call.log = Append(@, "reset"),
                              !.call.attempts = @ + 1]
         IN  Headers(c2)
    ELSE Finish(cfg, ClientJsonOrRaise(cfg, resp))

PerformRequestReply_KeepSession(cfg, resp) ==
    IF resp.status = 401 /\ cfg.client.auth # None /\ cfg.call.attempts = 0
    THEN Headers([cfg EXCEPT !.call.log = Append(@, "reset"),
                             !.call.attempts = @ + 1])
    ELSE Finish(cfg, ClientJsonOrRaise(cfg, resp))

PerformRequestReply(cfg, resp) ==
    IF resp.status = 401 /\ cfg.client.auth # None /\ cfg.call.attempts = 0
    THEN LET c1 == ClearSession(cfg, cfg.call.m)
             c2 == [c1 EXCEPT !.call.log = Append(@, "reset"),
                              !.call.attempts = @ + 1]
         IN  Headers(c2)
    ELSE Finish(cfg, ClientJsonOrRaise(cfg, resp))

----------------------------------------------------------------------------
(* The program *)

Cfg == [now |-> now, file |-> file, mgr |-> mgr, client |-> client, call |-> call]

Apply(cfg) ==
    /\ file' = cfg.file
    /\ mgr' = cfg.mgr
    /\ client' = cfg.client
    /\ call' = cfg.call
    /\ now' = now
    /\ lifetimes' = lifetimes

Begin(op, m, force) ==
    NoteExpired([Cfg EXCEPT !.call = NewCall(op, m, force)], m)

(* The sessions a server can mint next. *)
Mintable(logins) ==
    {Raw(minted, l, lifetimes[1], lifetimes[2], AbsentIssued) : l \in logins}

(* LabAuthManager.authorization_header(force_refresh) *)
AuthorizationHeader(m, force) ==
    /\ call.pc = "done"
    /\ Apply(EnsureSession(Begin("authorization_header", m, force)))
    /\ UNCHANGED <<minted, fsVars, sideVars>>

(* LabAuthManager.user_login() *)
UserLoginCall(m) ==
    /\ call.pc = "done"
    /\ LET r == UserLogin(Begin("user_login", m, FALSE), m)
       IN  Apply(Finish([r[1] EXCEPT !.call.login = r[2]],
                        Result("return", <<>>, 0, None, NoResp)))
    /\ UNCHANGED <<minted, fsVars, sideVars>>

(* LabAuthManager.reset_session() *)
ResetSession(m) ==
    /\ call.pc = "done"
    /\ Apply(Finish(ClearSession(Begin("reset_session", m, FALSE), m),
                    Result("return", <<>>, 0, None, NoResp)))
    /\ UNCHANGED <<minted, fsVars, sideVars>>

ClientManager == IF client.auth # None THEN Get(client.auth) ELSE "m1"

(* LabDeviceClient: _perform_request followed by _json_or_raise, as in     *)
(* get_property, set_property, call, connect and disconnect.               *)
Request ==
    /\ call.pc = "done"
    /\ Apply(Headers(Begin("request", ClientManager, FALSE)))
    /\ UNCHANGED <<minted, fsVars, sideVars>>

(* LabDeviceClient._request(endpoint, method, value), lines 117-130: the   *)
(* method is checked first, then the request goes the way of the others.   *)
PROPERTY_METHODS == {"GET", "POST"}
Methods == PROPERTY_METHODS \cup {"PUT"}

PropertyRequest_CheckLast(method) ==
    /\ call.pc = "done"
    /\ Apply(Headers(Begin("request", ClientManager, FALSE)))
    /\ UNCHANGED <<minted, fsVars, sideVars>>

PropertyRequest(method) ==
    /\ call.pc = "done"
    /\ IF method \notin PROPERTY_METHODS
       THEN Apply(Finish(Begin("request", ClientManager, FALSE),
                        Raise("ValueError", <<"Method must be">>, 0)))
       ELSE Apply(Headers(Begin("request", ClientManager, FALSE)))
    /\ UNCHANGED <<minted, fsVars, sideVars>>

(* POST /auth/token answered with a new session for the same user. *)
RefreshOk ==
    /\ call.pc = "refresh"
    /\ minted < MaxMinted
    /\ \E raw \in Mintable({Get(call.session).user}) :
          Apply(EnsureStore(Received(Cfg, Reply("token", 200, TRUE, NoBody)),
                            NormalizeSession(raw, now)))
    /\ minted' = minted + 1
    /\ UNCHANGED <<fsVars, sideVars>>

(* POST /auth/token failed. *)
RefreshError ==
    /\ call.pc = "refresh"
    /\ \E reply \in FailedReplies("token") :
          Apply(RefreshFailed(Received(Cfg, reply), AuthRequest(reply)))
    /\ UNCHANGED <<minted, fsVars, sideVars>>

(* POST /auth/device/start answered: sleep, then the first poll. *)
StartOk ==
    /\ call.pc = "start"
    /\ Apply(Send(Received(Cfg, Reply("start", 200, TRUE, NoBody)), "poll", "poll"))
    /\ UNCHANGED <<minted, fsVars, sideVars>>

StartError ==
    /\ call.pc = "start"
    /\ \E reply \in FailedReplies("start") :
          Apply(EnsureRaise(Received(Cfg, reply), AuthRequest(reply)))
    /\ UNCHANGED <<minted, fsVars, sideVars>>

(* POST /auth/device/poll answered status "pending": sleep, poll again. *)
PollPending ==
    /\ call.pc = "poll"
    /\ call.polls < MaxPolls
    /\ Apply(Send(Received([Cfg EXCEPT !.call.polls = @ + 1],
                           Reply("poll", 200, TRUE, Body("dict", {"pending"}))),
                  "poll", "poll"))
    /\ UNCHANGED <<minted, fsVars, sideVars>>

(* POST /auth/device/poll answered status "ok" with the session. *)
PollOk ==
    /\ call.pc = "poll"
    /\ minted < MaxMinted
    /\ \E raw \in Mintable(Logins) :
          Apply(EnsureStore(Received(Cfg, Reply("poll", 200, TRUE, Body("dict", {"ok"}))),
                            NormalizeSession(raw, now)))
    /\ minted' = minted + 1
    /\ UNCHANGED <<fsVars, sideVars>>

(* POST /auth/device/poll failed, or answered with another status. *)
PollError ==
    /\ call.pc = "poll"
    /\ \/ \E reply \in FailedReplies("poll") :
             Apply(EnsureRaise(Received(Cfg, reply), AuthRequest(reply)))
       \/ Apply(EnsureRaise(Received(Cfg, Reply("poll", 200, TRUE, Body("dict", {"detail"}))),
                            Raise("AuthError", <<"D">>, 0)))
    /\ UNCHANGED <<minted, fsVars, sideVars>>

(* The device request was answered. *)
HttpReply ==
    /\ call.pc = "http"
    /\ \E status \in Statuses, body \in Bodies :
          Apply(PerformRequestReply(
                    Received(Cfg, Reply("http", status, body.kind # "text", body)),
                    Resp(status, body)))
    /\ UNCHANGED <<minted, fsVars, sideVars>>

HttpUnreachable_Retry ==
    /\ call.pc = "http"
    /\ Apply(PerformRequestReply(Received(Cfg, Reply("http", 0, FALSE, NoBody)),
                                 Resp(401, NoBody)))
    /\ UNCHANGED <<minted, fsVars, sideVars>>

(* The device request failed in transport: requests.RequestException. *)
HttpUnreachable ==
    /\ call.pc = "http"
    /\ Apply(Finish(Received(Cfg, Reply("http", 0, FALSE, NoBody)),
                    Raise("ConnectionError", <<"Could not reach">>, 0)))
    /\ UNCHANGED <<minted, fsVars, sideVars>>

(* time.time() advances between calls. *)
Tick ==
    /\ call.pc = "done"
    /\ now < MaxTicks * TickSeconds
    /\ now' = now + TickSeconds
    /\ UNCHANGED <<file, mgr, client, call, minted, lifetimes, fsVars, sideVars>>

----------------------------------------------------------------------------
(* The token file, system call by system call (FsSpec).                    *)
(*   inodes     the files: inodes[i].content is a sequence of chunks, a    *)
(*              chunk <<d, k>> being the k-th part of document d;          *)
(*              inodes[i].mode is "0644" (as created) or "0600"            *)
(*   tokenPath  the inode token_path names, 0 when there is no such file   *)
(*   tmpPath    the inode token_path.with_suffix(".tmp") names, or 0       *)
(*   wr[w]      a process in _write_file(document w)                       *)
(*   rd[r]      a process in _read_file                                    *)

Writers == {"w1", "w2"}
Readers == {"r1"}

(* The writes a document takes: json.dump writes through a buffer. *)
FileChunks == 2

Hole == <<"", 0>>

(* Bytes that are not UTF-8: reading them from a file opened with          *)
(* encoding="utf-8" (line 169) raises UnicodeDecodeError, a ValueError     *)
(* that is neither a json.JSONDecodeError nor an OSError.                  *)
Undecodable == <<"bytes", 0>>

Document(d) == [k \in 1..FileChunks |-> <<d, k>>]

Complete(content) == \E d \in Writers \cup {"d0"} : content = Document(d)

NewInode == [content |-> <<>>, mode |-> "0644"]

(* The content after writing chunk `chunk` at offset `off`. *)
WriteAt(content, off, chunk) ==
    [k \in 1..(IF Len(content) > off + 1 THEN Len(content) ELSE off + 1) |->
        IF k = off + 1 THEN chunk
        ELSE IF k <= Len(content) THEN content[k] ELSE Hole]

IdleWriter == [pc |-> "idle", fd |-> 0, off |-> 0]
IdleReader == [pc |-> "idle", fd |-> 0, result |-> "", partial |-> FALSE]

(* _write_file line 177: open(tmp_path, "w") creates the file or truncates *)
(* the one that is there.                                                  *)
WOpen(w) ==
    /\ wr[w].pc = "idle"
    /\ IF tmpPath = 0
       THEN /\ inodes' = Append(inodes, NewInode)
            /\ tmpPath' = Len(inodes) + 1
       ELSE /\ inodes' = [inodes EXCEPT ![tmpPath].content = <<>>]
            /\ tmpPath' = tmpPath
    /\ wr' = [wr EXCEPT ![w] = [pc |-> "writing", fd |-> tmpPath', off |-> 0]]
    /\ UNCHANGED <<tokenPath, rd, mainVars, sideVars>>

(* line 178: json.dump(data, fh): one write at the handle's offset. *)
WWrite(w) ==
    /\ wr[w].pc = "writing"
    /\ wr[w].off < FileChunks
    /\ inodes' = [inodes EXCEPT ![wr[w].fd].content =
                     WriteAt(@, wr[w].off, <<w, wr[w].off + 1>>)]
    /\ wr' = [wr EXCEPT ![w].off = @ + 1,
                        ![w].pc = IF wr[w].off + 1 = FileChunks THEN "closed" ELSE @]
    /\ UNCHANGED <<tokenPath, tmpPath, rd, mainVars, sideVars>>

(* line 179: os.replace(tmp_path, token_path); FileNotFoundError when the  *)
(* temp file is gone.                                                      *)
WReplace(w) ==
    /\ wr[w].pc = "closed"
    /\ IF tmpPath = 0
       THEN /\ wr' = [wr EXCEPT ![w].pc = "FileNotFoundError"]
            /\ UNCHANGED <<tokenPath, tmpPath>>
       ELSE /\ tokenPath' = tmpPath
            /\ tmpPath' = 0
            /\ wr' = [wr EXCEPT ![w].pc = "replaced"]
    /\ UNCHANGED <<inodes, rd, mainVars, sideVars>>

(* lines 180-183: os.chmod(token_path, 0o600) *)
WChmod(w) ==
    /\ wr[w].pc = "replaced"
    /\ inodes' = [inodes EXCEPT ![tokenPath].mode = "0600"]
    /\ wr' = [wr EXCEPT ![w].pc = "done"]
    /\ UNCHANGED <<tokenPath, tmpPath, rd, mainVars, sideVars>>

(* _read_file line 166: if not self.token_path.exists(): return {} *)
RExists(r) ==
    /\ rd[r].pc \in {"idle", "done"}
    /\ rd' = [rd EXCEPT ![r] = IF tokenPath = 0
                                THEN [IdleReader EXCEPT !.pc = "done", !.result = "{}"]
                                ELSE [IdleReader EXCEPT !.pc = "exists"]]
    /\ UNCHANGED <<inodes, tokenPath, tmpPath, wr, mainVars, sideVars>>

(* line 169: open(self.token_path, "r"); OSError gives {} *)
ROpen(r) ==
    /\ rd[r].pc = "exists"
    /\ rd' = [rd EXCEPT ![r] = IF tokenPath = 0
                                THEN [@ EXCEPT !.pc = "done", !.result = "{}"]
                                ELSE [@ EXCEPT !.pc = "opened", !.fd = tokenPath]]
    /\ UNCHANGED <<inodes, tokenPath, tmpPath, wr, mainVars, sideVars>>

(* lines 170-172: json.load(fh) reads the whole file and parses it;        *)
(* JSONDecodeError gives {}, any other exception goes to the caller.       *)
RLoad(r) ==
    /\ rd[r].pc = "opened"
    /\ LET content == inodes[rd[r].fd].content
       IN  rd' = [rd EXCEPT ![r] =
                     IF \E k \in DOMAIN content : content[k] = Undecodable
                     THEN [@ EXCEPT !.pc = "UnicodeDecodeError"]
                     ELSE IF Complete(content)
                     THEN [@ EXCEPT !.pc = "done", !.result = content[1][1]]
                     ELSE [@ EXCEPT !.pc = "done", !.result = "{}", !.partial = TRUE]]
    /\ UNCHANGED <<inodes, tokenPath, tmpPath, wr, mainVars, sideVars>>

----------------------------------------------------------------------------
(* _interactive_login, lines 106-140, step by step (LoginSpec).            *)
(*   flow.pc        "start" (POST /auth/device/start sent), "sleep" (about *)
(*                  to time.sleep(interval)), "poll" (POST                 *)
(*                  /auth/device/poll sent) or "done"                      *)
(*   flow.interval  the local `interval`                                   *)
(*   flow.events    the replies received and the sleeps made, in order     *)
(*   flow.result    what _interactive_login returned or raised             *)

MaxFlowPolls == 3

(* start.get("interval", 5) *)
DefaultInterval == 5

(* The `interval` a reply carries, if any. *)
Intervals == {None, Some(1), Some(2)}

(* The `detail` a reply carries, if any. *)
Details == {None, Some("D")}

Ev(kind, flag, interval, detail) ==
    [kind |-> kind, flag |-> flag, interval |-> interval, detail |-> detail]

FlowResult(kind, msg, session) == [kind |-> kind, msg |-> msg, session |-> session]

NewFlow == [pc |-> "start", interval |-> 0, events |-> <<>>,
            result |-> FlowResult("none", "", None)]

FlowHeard(ev) == [flow EXCEPT !.events = Append(@, ev)]

(* line 136: interval = int(result.get("interval", interval)) *)
NextInterval_Keep(reply, interval) == interval

NextInterval(reply, interval) ==
    IF reply.interval # None THEN Get(reply.interval) ELSE interval

(* lines 107-128: the start reply arrived. *)
FlowStarted ==
    /\ flow.pc = "start"
    /\ \E iv \in Intervals :
          flow' = [FlowHeard(Ev("start", "", iv, None)) EXCEPT
                      !.pc = "sleep",
                      !.interval = IF iv # None THEN Get(iv) ELSE DefaultInterval]
    /\ UNCHANGED <<mainVars, fsVars, dev, trip, proc, req>>

(* line 107: _request raised (HTTP status >= 400 or no reply). *)
FlowStartFailed ==
    /\ flow.pc = "start"
    /\ \E d \in Details, kind \in {"AuthHttpError", "AuthError"} :
          flow' = [FlowHeard(Ev("start", "failed", None, d)) EXCEPT
                      !.pc = "done",
                      !.result = FlowResult(kind, IF kind = "AuthError" THEN "Failed to reach"
                                                  ELSE IF d # None THEN Get(d) ELSE "text",
                                            None)]
    /\ UNCHANGED <<mainVars, fsVars, dev, trip, proc, req>>

(* lines 130-133: time.sleep(interval), then the poll request. *)
FlowSleep ==
    /\ flow.pc = "sleep"
    /\ flow' = [FlowHeard(Ev("sleep", "", Some(flow.interval), None)) EXCEPT !.pc = "poll"]
    /\ UNCHANGED <<mainVars, fsVars, dev, trip, proc, req>>

(* lines 134-137: status "pending". *)
FlowPollPending ==
    /\ flow.pc = "poll"
    /\ Cardinality({i \in DOMAIN flow.events : flow.events[i].kind = "poll"}) < MaxFlowPolls
    /\ \E iv \in Intervals :
          LET reply == Ev("poll", "pending", iv, None)
          IN  flow' = [FlowHeard(reply) EXCEPT
                          !.pc = "sleep",
                          !.interval = NextInterval(reply, flow.interval)]
    /\ UNCHANGED <<mainVars, fsVars, dev, trip, proc, req>>

(* lines 138-139: status "ok". *)
FlowPollOk ==
    /\ flow.pc = "poll"
    /\ flow' = [FlowHeard(Ev("poll", "ok", None, None)) EXCEPT
                    !.pc = "done",
                    !.result = FlowResult("return", "",
                        Some(NormalizeSession(Raw(1, "alice", 3600, 7200, AbsentIssued), 0)))]
    /\ UNCHANGED <<mainVars, fsVars, dev, trip, proc, req>>

(* line 140: any other status, or none. *)
FlowPollOther ==
    /\ flow.pc = "poll"
    /\ \E flag \in {"denied", ""}, d \in Details, iv \in Intervals :
          flow' = [FlowHeard(Ev("poll", flag, iv, d)) EXCEPT
                      !.pc = "done",
                      !.result = FlowResult("AuthError",
                                            IF d # None THEN Get(d) ELSE "Device flow failed",
                                            None)]
    /\ UNCHANGED <<mainVars, fsVars, dev, trip, proc, req>>

(* lines 131-133: _request raised. *)
FlowPollFailed ==
    /\ flow.pc = "poll"
    /\ \E d \in Details, kind \in {"AuthHttpError", "AuthError"} :
          flow' = [FlowHeard(Ev("poll", "failed", None, d)) EXCEPT
                      !.pc = "done",
                      !.result = FlowResult(kind, IF kind = "AuthError" THEN "Failed to reach"
                                                  ELSE IF d # None THEN Get(d) ELSE "text",
                                            None)]
    /\ UNCHANGED <<mainVars, fsVars, dev, trip, proc, req>>

----------------------------------------------------------------------------
(* LabDeviceClient.call and the close() methods of the device clients      *)
(* (DeviceSpec).                                                           *)
(*   dev.op       "call" (call(name) of the base class) or "close"         *)
(*   dev.class    how the class's close() is written                       *)
(*   dev.pc       the POST whose reply is awaited: "call", "teardown" (the *)
(*                device's own close or disable), "disconnect"; or "done"  *)
(*   dev.posts    the endpoints POSTed so far                              *)
(*   dev.reply    the last reply                                           *)
(*   dev.pending  the exception the teardown raised, while the finally     *)
(*                clause runs                                              *)
(*   dev.result   what the method returned or raised                       *)

(* close() is                                                              *)
(*   "delegate"  self.disconnect()                  (arduino_adc_client.py *)
(*               and most others)                                          *)
(*   "finally"   try: self.call("close") finally: self.disconnect()        *)
(*               (slm_client.py, thorlabs_camera_client.py, the cameras)   *)
(*   "sequence"  self.disable(); self.disconnect()  (laser_base_clients.py)*)
(*   "teardown"  self.call("close")   (ID800Client.py, nktp_fs20_client.py)*)
CloseClasses == {"delegate", "finally", "sequence", "teardown"}

(* The value of the reply's "result" field. *)
ResultValues == {"null", "scalar", "list"}

(* A reply to a POST: status 0 is a transport failure. *)
DevReply(status, body, value) == [status |-> status, body |-> body, value |-> value]
NoDevReply == DevReply(0, NoBody, "null")

DevReplies ==
    {DevReply(0, NoBody, "null")}
    \cup {DevReply(st, Body(k, {}), "null") : st \in {200, 500}, k \in {"text", "list"}}
    \cup {DevReply(st, Body("dict", keys), v) :
             st \in {200, 500}, keys \in SUBSET {"result", "detail"}, v \in ResultValues}

(* What a method ends with: kind "return" with the value returned, or the  *)
(* exception class with its message.                                       *)
Outcome(kind, msg, value) == [kind |-> kind, msg |-> msg, value |-> value]
NoOutcome == Outcome("none", <<>>, "None")

(* _perform_request and _json_or_raise as one POST sees them. *)
PostOutcome(reply) ==
    IF reply.status = 0
    THEN Outcome("ConnectionError", <<"Could not reach">>, "None")
    ELSE LET r == JsonOrRaise(Resp(reply.status, reply.body))
         IN  IF r.kind = "return"
             THEN Outcome("return", <<>>, "json")
             ELSE Outcome(r.kind, r.msg, "None")

(* LabDeviceClient.call, lines 157-170, for a reply. *)
CallOutcome_DetailFirst(reply) ==
    LET r == PostOutcome(reply)
    IN  IF r.kind # "return" THEN r
        ELSE IF reply.body.kind # "dict"
        THEN Outcome("AttributeError", <<>>, "None")
        ELSE IF "detail" \in reply.body.keys
        THEN Outcome("RuntimeError", <<"D">>, "None")
        ELSE IF "result" \in reply.body.keys /\ reply.value # "null"
        THEN Outcome("return", <<>>, reply.value)
        ELSE Outcome("return", <<>>, "None")

CallOutcome(reply) ==
    LET r == PostOutcome(reply)
    IN  IF r.kind # "return" THEN r
        ELSE IF reply.body.kind # "dict"
        THEN (* a JSON list has no .get *)
             Outcome("AttributeError", <<>>, "None")
        ELSE IF "detail" \in reply.body.keys /\ "result" \notin reply.body.keys
        THEN Outcome("RuntimeError", <<"D">>, "None")
        ELSE IF "result" \in reply.body.keys /\ reply.value # "null"
        THEN (* np.array(result, dtype=object).dtype is object: the list  *)
             (* itself is returned                                        *)
             Outcome("return", <<>>, reply.value)
        ELSE Outcome("return", <<>>, "None")

(* LabDeviceClient.disconnect, lines 148-150, for a reply. *)
DisconnectOutcome(reply) ==
    LET r == PostOutcome(reply)
    IN  IF r.kind # "return" THEN r ELSE Outcome("return", <<>>, "None")

NewDev(op, class, pc, posts) ==
    [op |-> op, class |-> class, pc |-> pc, posts |-> posts, reply |-> NoDevReply,
     pending |-> NoOutcome, result |-> NoOutcome]

IdleDev == NewDev("none", "delegate", "idle", <<>>)

(* The method entered, up to its first POST. *)
DevBegun ==
    {NewDev("call", "delegate", "call", <<"sweep">>),
     NewDev("close", "delegate", "disconnect", <<"disconnect">>),
     NewDev("close", "finally", "teardown", <<"close">>),
     NewDev("close", "sequence", "teardown", <<"disable">>),
     NewDev("close", "teardown", "teardown", <<"close">>)}

(* call(name): the reply arrived. *)
DevCallReply ==
    /\ dev.pc = "call"
    /\ \E reply \in DevReplies :
          dev' = [dev EXCEPT !.pc = "done", !.reply = reply, !.result = CallOutcome(reply)]
    /\ UNCHANGED <<mainVars, fsVars, flow, trip, proc, req>>

(* close(): the device's own teardown call was answered. *)
DevTeardownReply ==
    /\ dev.pc = "teardown"
    /\ \E reply \in DevReplies :
          LET r == CallOutcome(reply)
          IN  dev' =
                IF dev.class = "finally"
                THEN [dev EXCEPT !.reply = reply, !.pc = "disconnect",
                                 !.posts = Append(@, "disconnect"),
                                 !.pending = IF r.kind = "return" THEN NoOutcome ELSE r]
                ELSE IF dev.class = "sequence" /\ r.kind = "return"
                THEN [dev EXCEPT !.reply = reply, !.pc = "disconnect",
                                 !.posts = Append(@, "disconnect")]
                ELSE [dev EXCEPT !.reply = reply, !.pc = "done",
                                 !.result = IF r.kind = "return"
                                            THEN Outcome("return", <<>>, "None") ELSE r]
    /\ UNCHANGED <<mainVars, fsVars, flow, trip, proc, req>>

(* close(): POST /devices/{name}/disconnect was answered. *)
DevDisconnectReply ==
    /\ dev.pc = "disconnect"
    /\ \E reply \in DevReplies :
          LET r == DisconnectOutcome(reply)
          IN  dev' = [dev EXCEPT !.reply = reply, !.pc = "done", !.pending = NoOutcome,
                                 !.result = IF r.kind # "return" THEN r
                                            ELSE IF dev.pending.kind # "none" THEN dev.pending
                                            ELSE r]
    /\ UNCHANGED <<mainVars, fsVars, flow, trip, proc, req>>

----------------------------------------------------------------------------
(* A session on its way through the store (TripSpec): _normalize_session   *)
(* of a raw response at time t0 and _persist by one manager, then          *)
(* _load_session_from_disk at time t1 by another manager for the same      *)
(* origin whose cache is empty.                                            *)
(*   trip.pc      "stored" or "done"                                       *)
(*   trip.raw     the raw provider response                                *)
(*   trip.file    the token file after _persist                            *)
(*   trip.loaded  what _load_session_from_disk returned                    *)
(*   trip.after   the token file after _load_session_from_disk             *)

MaxTripTicks == 2

TripRaws ==
    {Raw(1, l, attl, rttl, issued) :
        l \in Logins, attl \in {10, 40, 3600}, rttl \in {20, 90, 7200},
        issued \in {AbsentIssued, 0}}

(* A configuration in which nothing but the token file matters. *)
TripCfg(f, t) ==
    [now |-> t, file |-> f, mgr |-> [m \in Managers |-> NewManager(TRUE)],
     client |-> NoClient, call |-> NewCall("none", "m1", FALSE)]

NoTrip == [pc |-> "idle", raw |-> Raw(0, NoLogin, 0, 0, 0), t0 |-> 0, t1 |-> 0,
           file |-> WriteFile(EmptyData), loaded |-> None, after |-> WriteFile(EmptyData)]

TripStored(raw, t0, f) ==
    LET stored == Persist(TripCfg(f, t0), "m1", NormalizeSession(raw, t0)).file
    IN  [NoTrip EXCEPT !.pc = "stored", !.raw = raw, !.t0 = t0, !.t1 = t0,
                       !.file = stored, !.after = stored]

(* time.time() advances between the two. *)
TripTick ==
    /\ trip.pc = "stored"
    /\ trip.t1 < MaxTripTicks * TickSeconds
    /\ trip' = [trip EXCEPT !.t1 = @ + TickSeconds]
    /\ UNCHANGED <<mainVars, fsVars, flow, dev, proc, req>>

TripLoad ==
    /\ trip.pc = "stored"
    /\ LET r == LoadSessionFromDisk(TripCfg(trip.file, trip.t1), "m2")
       IN  trip' = [trip EXCEPT !.pc = "done", !.loaded = r[2], !.after = r[1].file]
    /\ UNCHANGED <<mainVars, fsVars, flow, dev, proc, req>>

----------------------------------------------------------------------------
(* Two requests that were both answered 401, made by two clients whose     *)
(* managers share the token file, from reset_session() on (RaceSpec):      *)
(* base_client.py lines 193-200, then _clear_session, _ensure_session,     *)
(* _persist and the second attempt, the token file being read and written  *)
(* system call by system call as in FsSpec.  The file holds one document;  *)
(* a document is named after the store entry for the origin in it: "old"   *)
(* (the session both requests used), "none" (no entry) or the process      *)
(* whose new session it is.                                                *)
(*   proc[p].pc       "reset", "lookup", "login", "persist", "http",       *)
(*                    "done", "FileNotFoundError", or inside _write_file   *)
(*                    "open", "write", "replace"                           *)
(*   proc[p].doc      the document _write_file is writing                  *)
(*   proc[p].next     where the caller of _write_file goes on              *)
(*   proc[p].fd, off  the open temp file and the offset in it              *)
(*   proc[p].session  self._session: "none" or the name of the session     *)
(*   proc[p].attempts HTTP attempts made                                   *)
(*   proc[p].resets   reset_session() calls made                           *)

Procs == {"p1", "p2"}

RaceDocument(d) == [k \in 1..FileChunks |-> <<d, k>>]

(* _read_file, lines 165-172, in one step: the entry for the origin, "none" *)
(* when the file is absent or json.load fails.                             *)
ReadEntry ==
    IF tokenPath = 0 THEN "none"
    ELSE LET content == inodes[tokenPath].content
         IN  IF \E d \in Procs \cup {"old", "none"} : content = RaceDocument(d)
             THEN content[1][1]
             ELSE "none"

NewProc == [pc |-> "reset", doc |-> "none", next |-> "reset", fd |-> 0, off |-> 0,
            session |-> "old", attempts |-> 1, resets |-> 0]

IdleProc == [NewProc EXCEPT !.pc = "idle"]

(* Enter _write_file(doc); the caller goes on at `next`. *)
WriteCall(p, doc, next) ==
    [proc[p] EXCEPT !.pc = "open", !.doc = doc, !.next = next]

(* base_client.py line 198 and _clear_session lines 159-163: the file is   *)
(* read, and written when it has an entry for the origin.                  *)
RaceClear(p) ==
    /\ proc[p].pc = "reset"
    /\ LET q == [proc EXCEPT ![p].resets = @ + 1, ![p].session = "none"]
       IN  proc' = IF ReadEntry # "none"
                   THEN [q EXCEPT ![p] = [WriteCall(p, "none", "lookup") EXCEPT
                                             !.resets = q[p].resets, !.session = "none"]]
                   ELSE [q EXCEPT ![p].pc = "lookup"]
    /\ UNCHANGED <<inodes, tokenPath, tmpPath>>
    /\ UNCHANGED <<mainVars, wr, rd, flow, dev, trip, req>>

(* _write_file line 177: open(tmp_path, "w") *)
RaceOpen(p) ==
    /\ proc[p].pc = "open"
    /\ IF tmpPath = 0
       THEN /\ inodes' = Append(inodes, NewInode)
            /\ tmpPath' = Len(inodes) + 1
       ELSE /\ inodes' = [inodes EXCEPT ![tmpPath].content = <<>>]
            /\ tmpPath' = tmpPath
    /\ proc' = [proc EXCEPT ![p].pc = "write", ![p].fd = tmpPath', ![p].off = 0]
    /\ UNCHANGED tokenPath
    /\ UNCHANGED <<mainVars, wr, rd, flow, dev, trip, req>>

(* line 178: json.dump *)
RaceWrite(p) ==
    /\ proc[p].pc = "write"
    /\ inodes' = [inodes EXCEPT ![proc[p].fd].content =
                     WriteAt(@, proc[p].off, <<proc[p].doc, proc[p].off + 1>>)]
    /\ proc' = [proc EXCEPT ![p].off = @ + 1,
                            ![p].pc = IF proc[p].off + 1 = FileChunks THEN "replace" ELSE @]
    /\ UNCHANGED <<tokenPath, tmpPath>>
    /\ UNCHANGED <<mainVars, wr, rd, flow, dev, trip, req>>

(* lines 179-183: os.replace, which raises FileNotFoundError when the temp *)
(* file is gone, and os.chmod; back in the caller.                         *)
RaceReplace(p) ==
    /\ proc[p].pc = "replace"
    /\ IF tmpPath = 0
       THEN /\ proc' = [proc EXCEPT ![p].pc = "FileNotFoundError"]
            /\ UNCHANGED <<inodes, tokenPath, tmpPath>>
       ELSE /\ tokenPath' = tmpPath
            /\ tmpPath' = 0
            /\ inodes' = [inodes EXCEPT ![tmpPath].mode = "0600"]
            /\ proc' = [proc EXCEPT ![p].pc = proc[p].next,
                                    ![p].session = IF proc[p].next = "http"
                                                   THEN proc[p].doc ELSE @]
    /\ UNCHANGED <<mainVars, wr, rd, flow, dev, trip, req>>

(* _ensure_session lines 71-74 for the retry: the cache is empty, the file *)
(* is read; a session found there is used.                                 *)
RaceLookup(p) ==
    /\ proc[p].pc = "lookup"
    /\ proc' = IF ReadEntry # "none"
               THEN [proc EXCEPT ![p].pc = "http", ![p].session = ReadEntry]
               ELSE [proc EXCEPT ![p].pc = "login"]
    /\ UNCHANGED <<inodes, tokenPath, tmpPath>>
    /\ UNCHANGED <<mainVars, wr, rd, flow, dev, trip, req>>

(* lines 93-94 and _persist lines 146-148: the device-code flow gave the   *)
(* process its own session; the file is read and written with it.          *)
RaceLogin(p) ==
    /\ proc[p].pc = "login"
    /\ proc' = [proc EXCEPT ![p] = WriteCall(p, p, "http")]
    /\ UNCHANGED <<inodes, tokenPath, tmpPath>>
    /\ UNCHANGED <<mainVars, wr, rd, flow, dev, trip, req>>

(* base_client.py lines 183-201: the second attempt, and its reply. *)
RaceHttp(p) ==
    /\ proc[p].pc = "http"
    /\ proc' = [proc EXCEPT ![p].pc = "done", ![p].attempts = @ + 1]
    /\ UNCHANGED <<inodes, tokenPath, tmpPath>>
    /\ UNCHANGED <<mainVars, wr, rd, flow, dev, trip, req>>

----------------------------------------------------------------------------
(* _perform_request with its arguments and locals (RetrySpec):             *)
(* base_client.py lines 172-201 and lab_overview_client.py lines 85-110,   *)
(* which are the same code.  A dict is a record of optional values, None   *)
(* for an absent key.                                                      *)
(*   req.kind         the class of the client                              *)
(*   req.auth         whether self._auth is set                            *)
(*   req.method, url  the arguments                                        *)
(*   req.given        the keyword arguments as the caller passed them      *)
(*   req.kwargs       the dict `kwargs`                                    *)
(*   req.base_payload, timeout, attempts, payload   the locals             *)
(*   req.resets       reset_session() calls made                           *)
(*   req.built        _headers() calls made                                *)
(*   req.wire         the requests handed to requests.request, in order    *)
(*   req.pc           "wait" (a request is out) or "done"                  *)
(*   req.result       the status of the response returned, 0 when          *)
(*                    ConnectionError was raised                           *)

Kwargs(json, timeout) == [json |-> json, timeout |-> timeout]

(* What the callers pass: json=... or nothing (base_client.py lines 114,   *)
(* 122, 129, 149, 158); a timeout is accepted too.                         *)
GivenKwargs == {Kwargs(j, t) : j \in {None, Some("J")}, t \in {None, Some(5)}}

Urls == {"/devices/d/call", "/overview/devices"}

(* The headers the n-th _headers() call built, after `resets` resets. *)
BuiltHeaders(n, resets) == [call |-> n, resets |-> resets]

IdleReq ==
    [kind |-> "device", auth |-> FALSE, method |-> "GET", url |-> "", given |-> Kwargs(None, None),
     kwargs |-> Kwargs(None, None), base_payload |-> Kwargs(None, None), timeout |-> None,
     attempts |-> 0, payload |-> Kwargs(None, None), resets |-> 0, built |-> 0,
     wire |-> <<>>, pc |-> "idle", result |-> 0]

(* The head of the loop, lines 180-189: copy the payload, build the        *)
(* headers, send.                                                          *)
RequestsRequest_PopAgain(r) ==
    LET payload == r.base_payload
    IN  [r EXCEPT !.payload = payload,
                  !.built = @ + 1,
                  !.pc = "wait",
                  !.wire = Append(@, [method |-> r.method, url |-> r.url,
                                      headers |-> BuiltHeaders(r.built + 1, r.resets),
                                      timeout |-> payload.timeout,
                                      payload |-> payload])]

RequestsRequest(r) ==
    LET payload == r.base_payload
    IN  [r EXCEPT !.payload = payload,
                  !.built = @ + 1,
                  !.pc = "wait",
                  !.wire = Append(@, [method |-> r.method, url |-> r.url,
                                      headers |-> BuiltHeaders(r.built + 1, r.resets),
                                      timeout |-> r.timeout,
                                      payload |-> payload])]

(* Lines 177-179, then the first turn of the loop. *)
PerformRequest(kind, auth, method, url, kwargs) ==
    RequestsRequest([IdleReq EXCEPT
        !.kind = kind, !.auth = auth, !.method = method, !.url = url,
        !.given = kwargs, !.kwargs = kwargs,
        !.base_payload = [kwargs EXCEPT !.timeout = None],
        !.timeout = kwargs.timeout,
        !.attempts = 0])

(* Lines 193-201: the response arrived. *)
RetryReplied ==
    /\ req.pc = "wait"
    /\ \E status \in Statuses :
          req' = IF status = 401 /\ req.auth /\ req.attempts = 0
                 THEN RequestsRequest([req EXCEPT !.resets = @ + 1, !.attempts = @ + 1])
                 ELSE [req EXCEPT !.pc = "done", !.result = status]
    /\ UNCHANGED <<mainVars, fsVars, flow, dev, trip, proc>>

(* Lines 190-191: requests.RequestException. *)
RetryUnreachable ==
    /\ req.pc = "wait"
    /\ req' = [req EXCEPT !.pc = "done", !.result = 0]
    /\ UNCHANGED <<mainVars, fsVars, flow, dev, trip, proc>>

SideIdle ==
    /\ flow = [NewFlow EXCEPT !.pc = "idle"]
    /\ dev = IdleDev
    /\ trip = NoTrip
    /\ proc = [p \in Procs |-> IdleProc]
    /\ req = IdleReq

FsIdle ==
    /\ inodes = <<>>
    /\ tokenPath = 0
    /\ tmpPath = 0
    /\ wr = [w \in Writers |-> IdleWriter]
    /\ rd = [r \in Readers |-> IdleReader]

MainIdle ==
    /\ now = 0
    /\ file = WriteFile(EmptyData)
    /\ mgr = [m \in Managers |-> NewManager(TRUE)]
    /\ client = NoClient
    /\ call = NewCall("none", "m1", FALSE)
    /\ minted = 1
    /\ lifetimes = <<3600, 7200>>

(* The token file is absent, holds document d0 written earlier, or holds   *)
(* bytes that are no text at all.                                          *)
FsInit ==
    /\ MainIdle
    /\ SideIdle
    /\ wr = [w \in Writers |-> IdleWriter]
    /\ rd = [r \in Readers |-> IdleReader]
    /\ tmpPath = 0
    /\ \/ inodes = <<>> /\ tokenPath = 0
       \/ inodes = <<[content |-> Document("d0"), mode |-> "0600"]>> /\ tokenPath = 1
       \/ inodes = <<[content |-> <<Undecodable>>, mode |-> "0600"]>> /\ tokenPath = 1

FsNext ==
    \/ \E w \in Writers : WOpen(w)
    \/ \E w \in Writers : WWrite(w)
    \/ \E w \in Writers : WReplace(w)
    \/ \E w \in Writers : WChmod(w)
    \/ \E r \in Readers : RExists(r)
    \/ \E r \in Readers : ROpen(r)
    \/ \E r \in Readers : RLoad(r)

FsSpec == FsInit /\ [][FsNext]_vars

LoginInit ==
    /\ MainIdle
    /\ FsIdle
    /\ flow = NewFlow
    /\ dev = IdleDev
    /\ trip = NoTrip
    /\ proc = [p \in Procs |-> IdleProc]
    /\ req = IdleReq

LoginNext ==
    \/ FlowStarted
    \/ FlowStartFailed
    \/ FlowSleep
    \/ FlowPollPending
    \/ FlowPollOk
    \/ FlowPollOther
    \/ FlowPollFailed

LoginSpec == LoginInit /\ [][LoginNext]_vars

DeviceInit ==
    /\ MainIdle
    /\ FsIdle
    /\ flow = [NewFlow EXCEPT !.pc = "idle"]
    /\ dev \in DevBegun
    /\ trip = NoTrip
    /\ proc = [p \in Procs |-> IdleProc]
    /\ req = IdleReq

DeviceNext ==
    \/ DevCallReply
    \/ DevTeardownReply
    \/ DevDisconnectReply

DeviceSpec == DeviceInit /\ [][DeviceNext]_vars

----------------------------------------------------------------------------
(* The state after construction.  The token file is unreadable, holds no   *)
(* session for the server, or holds one written at time 0 by an earlier    *)
(* run (and one for another server).                                       *)

StoredBefore(ttl) ==
    NormalizeSession(Raw(0, "alice", ttl[1], ttl[2], AbsentIssued), 0)

OtherOrigin == NormalizeSession(Raw(99, "bob", 3600, 7200, AbsentIssued), 0)

InitFiles(ttl) ==
    {[state |-> st, text |-> JsonDump(EmptyData)] : st \in {"corrupt", "ok"}}
    \cup {WriteFile([o \in Origins |->
                      IF o = "A" THEN Some(StoredBefore(ttl)) ELSE Some(OtherOrigin)])}

(* The manager a client constructs for itself when none is passed: one    *)
(* for the same base_url and token file, as m1 is.                         *)
OwnManager == Some("m1")

(* self._auth after __init__: base_client.py lines 62-68 and               *)
(* lab_overview_client.py lines 31-37.  `auth` is the auth argument,       *)
(* `disabled` is _auth_disabled().                                         *)
ClientAuth(kind, auth, disabled) ==
    IF kind = "overview"
    THEN IF disabled THEN None
         ELSE IF auth # None THEN auth ELSE OwnManager
    ELSE IF auth = None /\ ~disabled THEN OwnManager ELSE auth

(* LabDeviceClient.__init__, lines 59-70, and LabOverviewClient.__init__,  *)
(* lines 29-39: `given` is the user argument.                              *)
NewClient(cfg, kind, given, auth, disabled) ==
    LET own == ClientAuth(kind, auth, disabled)
        r == IF given # NoLogin THEN <<cfg, given>>
             ELSE IF own # None THEN UserLogin(cfg, Get(own))
             ELSE <<cfg, NoLogin>>
    IN  [r[1] EXCEPT !.client = [given |-> given, user |-> r[2], debug |-> FALSE,
                                 auth |-> own, kind |-> kind, disabled |-> disabled]]

(* <<user, auth, _auth_disabled()>> of the LabDeviceClient constructed:    *)
(* with a manager, with and without a user given; or with authentication   *)
(* disabled.                                                               *)
Constructions ==
    {<<NoLogin, Some("m1"), FALSE>>, <<"carol", Some("m1"), FALSE>>, <<NoLogin, None, TRUE>>}

(* <<class, auth>> of the client constructed while the environment         *)
(* disables authentication.                                                *)
DisabledConstructions ==
    {<<"device", None>>, <<"device", Some("m1")>>, <<"overview", Some("m1")>>}

InitCfgs(ttl) ==
    {NewClient([now |-> 0, file |-> f,
                mgr |-> [m \in Managers |->
                          NewManager(IF m = "m1" THEN i ELSE TRUE)],
                client |-> NoClient,
                call |-> NewCall("none", "m1", FALSE)],
               "device", made[1], made[2], made[3])
     : f \in InitFiles(ttl), i \in BOOLEAN, made \in Constructions}

DisabledCfgs(ttl) ==
    {NewClient([now |-> 0, file |-> f,
                mgr |-> [m \in Managers |->
                          NewManager(IF m = "m1" THEN i ELSE TRUE)],
                client |-> NoClient,
                call |-> NewCall("none", "m1", FALSE)],
               made[1], NoLogin, made[2], TRUE)
     : f \in InitFiles(ttl), i \in BOOLEAN, made \in DisabledConstructions}

Init ==
    /\ lifetimes \in Ttls
    /\ \E cfg \in InitCfgs(lifetimes) :
          /\ now = cfg.now
          /\ file = cfg.file
          /\ mgr = cfg.mgr
          /\ client = cfg.client
          /\ call = cfg.call
    /\ minted = 1
    /\ FsIdle
    /\ SideIdle

Next ==
    \/ \E force \in BOOLEAN : AuthorizationHeader("m1", force)
    \/ AuthorizationHeader("m2", FALSE)
    \/ UserLoginCall("m1")
    \/ ResetSession("m1")
    \/ Request
    \/ \E method \in Methods : PropertyRequest(method)
    \/ RefreshOk
    \/ RefreshError
    \/ StartOk
    \/ StartError
    \/ PollPending
    \/ PollOk
    \/ PollError
    \/ HttpReply
    \/ HttpUnreachable
    \/ Tick

Spec == Init /\ [][Next]_vars

(* The same program with manager m1 alone: nothing else writes the token   *)
(* file (SoloSpec).                                                        *)
SoloNext ==
    \/ \E force \in BOOLEAN : AuthorizationHeader("m1", force)
    \/ UserLoginCall("m1")
    \/ ResetSession("m1")
    \/ Request
    \/ \E method \in Methods : PropertyRequest(method)
    \/ RefreshOk
    \/ RefreshError
    \/ StartOk
    \/ StartError
    \/ PollPending
    \/ PollOk
    \/ PollError
    \/ HttpReply
    \/ HttpUnreachable
    \/ Tick

SoloSpec == Init /\ [][SoloNext]_vars

(* The same program, started with the environment variable                 *)
(* LAB_CLIENT_DISABLE_AUTH set.                                            *)
DisabledInit ==
    /\ lifetimes \in Ttls
    /\ \E cfg \in DisabledCfgs(lifetimes) :
          /\ now = cfg.now
          /\ file = cfg.file
          /\ mgr = cfg.mgr
          /\ client = cfg.client
          /\ call = cfg.call
    /\ minted = 1
    /\ FsIdle
    /\ SideIdle

DisabledSpec == DisabledInit /\ [][Next]_vars

(* A session on its way through the store. *)
TripInit ==
    /\ MainIdle
    /\ FsIdle
    /\ flow = [NewFlow EXCEPT !.pc = "idle"]
    /\ dev = IdleDev
    /\ proc = [p \in Procs |-> IdleProc]
    /\ req = IdleReq
    /\ \E raw \in TripRaws, t0 \in {0, TickSeconds}, f \in InitFiles(<<3600, 7200>>) :
          trip = TripStored(raw, t0, f)

TripNext ==
    \/ TripTick
    \/ TripLoad

TripSpec == TripInit /\ [][TripNext]_vars

(* One authorization_header() call with the poll loop of                  *)
(* _interactive_login (lines 129-137) unrolled without end, and with the   *)
(* error replies of the auth endpoints carrying a body (LiveSpec):         *)
(* call.pc is "poll" while POST /auth/device/poll is awaited and "sleep"   *)
(* during time.sleep(interval).  A "pending" reply is counted up to        *)
(* MaxPolls and not recorded otherwise, so that the loop is a cycle of     *)
(* states, as it is a cycle of the code: no counter, no deadline.          *)
LiveBegin ==
    /\ call.op = "none"
    /\ \E force \in BOOLEAN : AuthorizationHeader("m1", force)

(* lines 134-137: status "pending"; back to the head of the loop. *)
LivePending_GiveUp ==
    /\ call.pc = "poll"
    /\ Apply(EnsureRaise(Cfg, Raise("AuthError", <<"timed out">>, 0)))
    /\ UNCHANGED <<minted, fsVars, sideVars>>

LivePending ==
    /\ call.pc = "poll"
    /\ Apply([Cfg EXCEPT !.call.pc = "sleep",
                         !.call.polls = IF @ < MaxPolls THEN @ + 1 ELSE @])
    /\ UNCHANGED <<minted, fsVars, sideVars>>

(* lines 130-133: the sleep is over, the next poll request is sent. *)
LiveSleep ==
    /\ call.pc = "sleep"
    /\ Apply([Cfg EXCEPT !.call.pc = "poll"])
    /\ UNCHANGED <<minted, fsVars, sideVars>>

(* An auth endpoint answered with a status >= 400 and some body: _request *)
(* raises AuthHttpError, which _refresh's caller handles (lines 82-86) and *)
(* the device-code flow lets through.                                      *)
AuthFailed ==
    /\ call.pc \in {"refresh", "start", "poll"}
    /\ \E status \in AuthStatuses("token"), body \in AuthBodies :
          LET to == IF call.pc = "refresh" THEN "token" ELSE call.pc
              reply == Reply(to, status, body.kind # "text", body)
          IN  Apply(IF to = "token"
                    THEN RefreshFailed(Received(Cfg, reply), AuthRequest(reply))
                    ELSE EnsureRaise(Received(Cfg, reply), AuthRequest(reply)))
    /\ UNCHANGED <<minted, fsVars, sideVars>>

LiveNext ==
    \/ Tick
    \/ LiveBegin
    \/ RefreshOk
    \/ RefreshError
    \/ StartOk
    \/ StartError
    \/ LivePending
    \/ LiveSleep
    \/ PollOk
    \/ PollError
    \/ AuthFailed

(* The program and the server keep going (every request is answered or     *)
(* fails within its timeout of 15 s, line 191), and the server answers     *)
(* "ok" to some poll if it is polled again and again.                      *)
LiveSpec ==
    /\ Init
    /\ [][LiveNext]_vars
    /\ WF_vars(LiveNext)
    /\ SF_vars(PollOk)

RetryInit ==
    /\ MainIdle
    /\ FsIdle
    /\ flow = [NewFlow EXCEPT !.pc = "idle"]
    /\ dev = IdleDev
    /\ trip = NoTrip
    /\ proc = [p \in Procs |-> IdleProc]
    /\ \E kind \in {"device", "overview"}, auth \in BOOLEAN, method \in PROPERTY_METHODS,
          url \in Urls, kwargs \in GivenKwargs :
          req = PerformRequest(kind, auth, method, url, kwargs)

RetryNext ==
    \/ RetryReplied
    \/ RetryUnreachable

RetrySpec == RetryInit /\ [][RetryNext]_vars

(* Both requests were answered 401; the token file holds the session both  *)
(* used, or is absent.                                                     *)
RaceInit ==
    /\ MainIdle
    /\ flow = [NewFlow EXCEPT !.pc = "idle"]
    /\ dev = IdleDev
    /\ trip = NoTrip
    /\ wr = [w \in Writers |-> IdleWriter]
    /\ rd = [r \in Readers |-> IdleReader]
    /\ tmpPath = 0
    /\ \/ inodes = <<>> /\ tokenPath = 0
       \/ inodes = <<[content |-> RaceDocument("old"), mode |-> "0600"]>> /\ tokenPath = 1
    /\ proc = [p \in Procs |-> NewProc]
    /\ req = IdleReq

RaceNext ==
    \/ \E p \in Procs : RaceClear(p)
    \/ \E p \in Procs : RaceOpen(p)
    \/ \E p \in Procs : RaceWrite(p)
    \/ \E p \in Procs : RaceReplace(p)
    \/ \E p \in Procs : RaceLookup(p)
    \/ \E p \in Procs : RaceLogin(p)
    \/ \E p \in Procs : RaceHttp(p)

RaceSpec == RaceInit /\ [][RaceNext]_vars

----------------------------------------------------------------------------
(* Properties *)

Range(seq) == {seq[i] : i \in DOMAIN seq}
LastOf(seq) == seq[Len(seq)]
Count(seq, x) == Cardinality({i \in DOMAIN seq : seq[i] = x})

(* The store entry for the origin of manager m, as _read_file gives it. *)
StoreEntry(f, m) == ReadFile(f)[BaseUrl(m)]

(* The statuses of the replies to the device requests of the running call. *)
HttpStatuses ==
    LET http == SelectSeq(call.replies, LAMBDA r : r.to = "http")
    IN  [i \in DOMAIN http |-> http[i].status]

(* The running call raised what _json_or_raise makes of a response. *)
SurfacedAsError ==
    /\ call.result.kind = "RuntimeError"
    /\ call.result.msg[1] \in {"HTTP", "Server error"}

(* In this step the running call received one more reply. *)
GotReply == Len(call'.replies) = Len(call.replies) + 1

(* C1, as stated: with an AuthManager configured, a request whose every    *)
(* HTTP attempt is answered 401 makes exactly one reset_session() call and *)
(* exactly two HTTP attempts, and the second 401 is surfaced as an error.  *)
C1_Original ==
    (/\ call.op = "request" /\ call.pc = "done" /\ client.auth # None
     /\ HttpStatuses # <<>>
     /\ \A i \in DOMAIN HttpStatuses : HttpStatuses[i] = 401)
    => (/\ Count(call.log, "reset") = 1
        /\ Count(call.log, "http") = 2
        /\ SurfacedAsError)

(* C1, amended: with an AuthManager configured a request makes at most two *)
(* HTTP attempts and at most one reset_session() call, the reset following *)
(* a first reply of 401 and nothing else.  When both attempts are answered *)
(* 401 the second response is surfaced as an error; when the first is      *)
(* answered 401 and no second attempt is sent, the request raised because  *)
(* the re-authentication for the retry failed.                             *)
C1_SingleRetry ==
    (call.op = "request" /\ client.auth # None)
    => (/\ Count(call.log, "http") <= 2
        /\ Count(call.log, "reset") <= 1
        /\ Count(call.log, "reset") = 1
              <=> (HttpStatuses # <<>> /\ HttpStatuses[1] = 401)
        /\ (call.pc = "done" /\ HttpStatuses = <<401, 401>>)
              => (Count(call.log, "http") = 2 /\ SurfacedAsError)
        /\ (call.pc = "done" /\ HttpStatuses = <<401>>)
              => (/\ call.result.kind = "RuntimeError"
                  /\ call.result.msg[1] = "Authentication failed"
                  /\ Count(call.log, "http") = 1))

C1_Witness ==
    /\ call.op = "request" /\ call.pc = "done" /\ client.auth # None
    /\ HttpStatuses = <<401, 401>>
    /\ Count(call.log, "reset") = 1

(* C2: a refresh answered 400 or 401 removes the session from the cache    *)
(* and from the store and, in interactive mode, starts the device-code     *)
(* flow; answered by any other failure, the error propagates and the cache *)
(* and the store are left as they were.                                    *)
C2_Step ==
    (call.pc = "refresh" /\ GotReply)
    => LET reply == LastOf(call'.replies)
           m == call.m
       IN  /\ reply.status \in {400, 401}
              => (/\ mgr'[m].session = None
                  /\ StoreEntry(file', m) = None
                  /\ IF mgr[m].interactive
                     THEN call'.pc = "start" /\ call'.log = Append(call.log, "start")
                     ELSE call'.pc = "done" /\ call'.result.kind # "return")
           /\ (reply.status \notin {400, 401} /\ ~(reply.status = 200 /\ reply.json))
              => (/\ mgr' = mgr
                  /\ file' = file
                  /\ call'.log = call.log
                  /\ call'.pc = "done"
                  /\ call.op = "authorization_header"
                        => IF reply.status >= 400
                           THEN /\ call'.result.kind = "AuthHttpError"
                                /\ call'.result.status = reply.status
                           ELSE call'.result.kind = "AuthError")

C2_RefreshThenFallback == [][C2_Step]_vars

C2_Witness ==
    /\ call.op = "authorization_header" /\ call.pc = "done"
    /\ call.result.kind = "AuthHttpError" /\ call.result.status = 500
    /\ LastOf(call.replies).to = "token"
    /\ StoreEntry(file, call.m) = call.session

(* C3, as stated: authorization_header() that finds the in-memory session  *)
(* absent or stale re-reads the store, so that a session in the store      *)
(* whose access token is still valid is the one it returns.                *)
C3_Step ==
    \A m \in Managers :
        (/\ AuthorizationHeader(m, FALSE)
         /\ \/ mgr[m].session = None
            \/ Get(mgr[m].session).access_token_expires_at <= now + 30
         /\ StoreEntry(file, m) # None
         /\ Get(StoreEntry(file, m)).access_token_expires_at > now + 30
         /\ Get(StoreEntry(file, m)).refresh_token_expires_at > now + 30)
        => (/\ call'.pc = "done"
            /\ call'.result.bearer = Some(Get(StoreEntry(file, m)).access_token))

C3_Original == [][C3_Step]_vars

(* C4, as stated: a _read_file that runs while other processes are in      *)
(* _write_file never sees a truncated or partly written token file.        *)
C4_Original ==
    \A r \in Readers : rd[r].pc = "done" => ~rd[r].partial

(* C5, as stated: every device request carries as X-User the user given to *)
(* the constructor or, when none was given, the login of the session whose *)
(* access token it carries as Authorization.                               *)
C5_Original ==
    (call.op = "request" /\ call.pc = "http" /\ client.auth # None)
    => LET h == LastOf(call.sent)
           s == Get(mgr[call.m].session)
       IN  /\ h.bearer = Some(s.access_token)
           /\ h.xuser = IF client.given # NoLogin THEN client.given ELSE s.user

(* C6, as stated: for a status >= 400 _json_or_raise raises "Server error" *)
(* with the body's detail (or else its error), and the "HTTP <status>"     *)
(* fallback only when the body is not a JSON object with one of the two.   *)
C6_Original ==
    (/\ call.op = "request" /\ call.pc = "done"
     /\ call.replies # <<>>
     /\ LastOf(call.replies).to = "http"
     /\ LastOf(call.replies).status >= 400
     /\ call.result.msg[1] # "Authentication failed")
    => LET body == LastOf(call.replies).body
       IN  /\ call.result.kind = "RuntimeError"
           /\ IF body.kind = "dict" /\ "detail" \in body.keys
              THEN call.result.msg = <<"Server error", "D">>
              ELSE IF body.kind = "dict" /\ "error" \in body.keys
              THEN call.result.msg = <<"Server error", "E">>
              ELSE /\ call.result.msg = <<"HTTP">>
                   /\ call.result.status = LastOf(call.replies).status
                   /\ call.result.resp.body = body

(* C7, as stated: after an authorization_header() or user_login() that     *)
(* came across a session whose refresh token had expired, that session is  *)
(* neither in the cache nor in the store, and neither its token nor its    *)
(* login was returned.                                                     *)
C7_Original ==
    (/\ call.pc = "done"
     /\ call.op \in {"authorization_header", "user_login"}
     /\ call.enc # None)
    => (/\ mgr[call.m].session # call.enc
        /\ StoreEntry(file, call.m) # call.enc
        /\ call.result.bearer # Some(Get(call.enc).access_token)
        /\ call.login = NoLogin)

(* The step is the start of a call of op on manager m. *)
Began(op, m) == call.pc = "done" /\ call'.op = op /\ call'.m = m

(* C8: authorization_header() returns the session it holds at once, with   *)
(* no request, exactly when the access token's expiry t is not zero and    *)
(* t > now + 30; so an expiry of now + 10 sends a refresh (the refresh     *)
(* token being valid) and an expiry of now + 3600 does not.                *)
C8_Step ==
    \A m \in Managers :
        (/\ Began("authorization_header", m)
         /\ AuthorizationHeader(m, FALSE)
         /\ CameAcross(Cfg, m) # None
         /\ \/ mgr[m].session # None
            \/ Get(CameAcross(Cfg, m)).refresh_token_expires_at > now + 30)
        => LET s == Get(CameAcross(Cfg, m))
               t == s.access_token_expires_at
               atOnce == /\ call'.pc = "done"
                         /\ call'.log = <<>>
                         /\ call'.result.bearer = Some(s.access_token)
           IN  /\ atOnce <=> (t # 0 /\ t > now + 30)
               /\ t = now + 3600 => atOnce
               /\ (t = now + 10 /\ s.refresh_token_expires_at > now + 30)
                     => (call'.pc = "refresh" /\ call'.log = <<"token">>)

C8_ExpirySkew == [][C8_Step]_vars

C8_Witness ==
    /\ call.op = "authorization_header" /\ call.pc = "refresh"
    /\ call.log = <<"token">>
    /\ Get(call.session).access_token_expires_at = now + 10

(* C9: with interactive login disabled, authorization_header() that has no *)
(* usable session (none cached or stored, both tokens expired, or the      *)
(* refresh answered 400 or 401) raises the authentication-required error;  *)
(* the manager never sends a device-code start or poll request, and the    *)
(* call puts no session into the cache or the store.                       *)
C9_Post(m) ==
    /\ call'.pc = "done"
    /\ call'.result = AuthRequired
    /\ mgr'[m].session \in {None, mgr[m].session}
    /\ StoreEntry(file', m) \in {None, StoreEntry(file, m)}

C9_NoUsable(m, force) ==
    \/ force
    \/ CameAcross(Cfg, m) = None
    \/ /\ Get(CameAcross(Cfg, m)).access_token_expires_at <= now + 30
       /\ Get(CameAcross(Cfg, m)).refresh_token_expires_at <= now + 30

C9_Step ==
    /\ \A m \in Managers :
        ~mgr[m].interactive
        => /\ \A force \in BOOLEAN :
                (/\ Began("authorization_header", m)
                 /\ AuthorizationHeader(m, force)
                 /\ C9_NoUsable(m, force)) => C9_Post(m)
           /\ (/\ call.op = "authorization_header" /\ call.m = m
               /\ call.pc = "refresh" /\ GotReply
               /\ LastOf(call'.replies).status \in {400, 401})
              => C9_Post(m)
    /\ ~mgr'[call'.m].interactive
       => (Range(call'.log) \cap {"start", "poll"} = {})

C9_AuthRequired == [][C9_Step]_vars

C9_Witness ==
    /\ call.op = "authorization_header" /\ call.pc = "done"
    /\ ~mgr[call.m].interactive
    /\ call.result = AuthRequired
    /\ call.replies # <<>>
    /\ LastOf(call.replies).status = 401

(* C10: reset_session() leaves neither a cached session nor a store entry  *)
(* for the origin; the authorization_header() that follows it sends no     *)
(* refresh request: it starts the device-code flow, from which alone it    *)
(* can return a session, or fails when interactive login is disabled.      *)
C10_Step ==
    \A m \in Managers :
        /\ (Began("reset_session", m) /\ ResetSession(m))
           => (mgr'[m].session = None /\ StoreEntry(file', m) = None)
        /\ \A force \in BOOLEAN :
              (/\ call.op = "reset_session" /\ call.m = m
               /\ Began("authorization_header", m)
               /\ AuthorizationHeader(m, force))
              => IF mgr[m].interactive
                 THEN call'.pc = "start" /\ call'.log = <<"start">>
                 ELSE call'.pc = "done" /\ call'.result = AuthRequired /\ call'.log = <<>>
        /\ (/\ call'.op = "authorization_header" /\ call'.m = m
            /\ call'.log # <<>> /\ call'.log[1] = "start")
           => (/\ "token" \notin Range(call'.log)
               /\ (call'.pc = "done" /\ call'.result.kind = "return")
                  => (/\ "poll" \in Range(call'.log)
                      /\ LastOf(call'.replies).body = Body("dict", {"ok"})
                      /\ call'.result.bearer = Some(Get(mgr'[m].session).access_token)
                      /\ StoreEntry(file', m) = mgr'[m].session))

C10_ResetSession == [][C10_Step]_vars

C10_Witness ==
    /\ call.op = "reset_session" /\ call.pc = "done"
    /\ now = 0 /\ minted = 1
    /\ file.state = "ok"
    /\ ReadFile(file)["B"] # None
    /\ ReadFile(file)["A"] = None
    /\ mgr[call.m].session = None

(* C11: authorization_header(force_refresh = TRUE) first removes the       *)
(* cached session and the store entry for the origin and sends no refresh; *)
(* through the whole call the cache and the store hold nothing for the     *)
(* origin, so the token it returns is that of a session obtained in the    *)
(* call, held by nobody before; when the call fails the store holds no     *)
(* entry for the origin.                                                   *)
TokensHeld ==
    {Get(mgr[m].session).access_token : m \in {k \in Managers : mgr[k].session # None}}
    \cup {Get(ReadFile(file)[o]).access_token : o \in {k \in Origins : ReadFile(file)[k] # None}}

C11_Step ==
    /\ \A m \in Managers :
          (Began("authorization_header", m) /\ call'.force /\ AuthorizationHeader(m, TRUE))
          => (/\ mgr'[m].session = None
              /\ StoreEntry(file', m) = None
              /\ call'.log \in {<<>>, <<"start">>}
              /\ call'.pc = "done" => call'.result.kind # "return")
    /\ (call'.op = "authorization_header" /\ call'.force /\ call' # call)
       => (/\ "token" \notin Range(call'.log)
           /\ call'.pc # "done"
                 => (mgr'[call'.m].session = None /\ StoreEntry(file', call'.m) = None)
           /\ (call'.pc = "done" /\ call'.result.kind = "return")
                 => (/\ call'.result.bearer # None
                     /\ Get(call'.result.bearer) \notin TokensHeld
                     /\ mgr'[call'.m].session # None
                     /\ call'.result.bearer
                           = Some(Get(mgr'[call'.m].session).access_token))
           /\ (call'.pc = "done" /\ call'.result.kind # "return")
                 => StoreEntry(file', call'.m) = None)

C11_ForceRefresh == [][C11_Step]_vars

C11_Witness ==
    /\ call.op = "authorization_header" /\ call.force
    /\ call.pc = "done" /\ call.result.kind = "return"
    /\ mgr["m2"].session # None
    /\ mgr["m2"].session # mgr[call.m].session

(* C12: user_login() returns the login of the cached session, else of the  *)
(* session the store holds with a refresh token that has not expired, else *)
(* none; it returns at once, with no request sent.                         *)
C12_Step ==
    \A m \in Managers :
        (Began("user_login", m) /\ UserLoginCall(m))
        => (/\ call'.pc = "done"
            /\ call'.result.kind = "return"
            /\ call'.log = <<>>
            /\ call'.replies = <<>>
            /\ call'.login =
                  IF mgr[m].session # None
                  THEN Get(mgr[m].session).user
                  ELSE IF /\ StoreEntry(file, m) # None
                          /\ Get(StoreEntry(file, m)).refresh_token_expires_at > now + 30
                  THEN Get(StoreEntry(file, m)).user
                  ELSE NoLogin)

C12_UserLogin == [][C12_Step]_vars

C12_Witness ==
    /\ call.op = "user_login" /\ call.pc = "done"
    /\ mgr[call.m].session # None
    /\ StoreEntry(file, call.m) # None
    /\ Get(StoreEntry(file, call.m)).user # Get(mgr[call.m].session).user
    /\ call.login = Get(mgr[call.m].session).user

(* C17: a device request that fails in transport ends the call at once     *)
(* with the connectivity error: no further HTTP attempt and no             *)
(* reset_session() follow, on the first attempt and on the retry alike.    *)
C17_Step ==
    (/\ call.pc = "http" /\ GotReply
     /\ LastOf(call'.replies).to = "http"
     /\ LastOf(call'.replies).status = 0)
    => (/\ call'.pc = "done"
        /\ call'.result.kind = "ConnectionError"
        /\ call'.result.msg = <<"Could not reach">>
        /\ call'.log = call.log
        /\ call'.attempts = call.attempts
        /\ mgr' = mgr /\ file' = file)

C17_TransportFailure == [][C17_Step]_vars

C17_Witness ==
    /\ call.op = "request" /\ call.pc = "done"
    /\ call.result.kind = "ConnectionError"
    /\ HttpStatuses = <<401, 0>>
    /\ Count(call.log, "reset") = 1

(* C18: a property access with a method other than GET or POST raises      *)
(* ValueError at once: no request of any kind is sent and the session      *)
(* cache and the token file are left as they were.                         *)
C18_Step ==
    \A method \in Methods \ PROPERTY_METHODS :
        PropertyRequest(method)
        => (/\ call'.pc = "done"
            /\ call'.result.kind = "ValueError"
            /\ call'.log = <<>>
            /\ call'.sent = <<>>
            /\ mgr' = mgr
            /\ file' = file
            /\ client' = client)

C18_InvalidMethod == [][C18_Step]_vars

C18_Witness ==
    /\ call.op = "request" /\ call.pc = "done"
    /\ call.result.kind = "ValueError"
    /\ client.auth # None
    /\ StoreEntry(file, call.m) # None
    /\ Get(StoreEntry(file, call.m)).access_token_expires_at <= now + 30

(* C15, as stated: with the environment variable set, a client of either   *)
(* class, whatever it was constructed with, consults no AuthManager: its   *)
(* requests carry no Authorization header, and a 401 is returned with no   *)
(* reset and no retry.                                                     *)
C15_Original ==
    (client.disabled /\ call.op = "request")
    => (/\ \A i \in DOMAIN call.sent : call.sent[i].bearer = None
        /\ Range(call.log) \subseteq {"http"}
        /\ Len(call.log) <= 1)

(* C13: in the device-code flow every poll is preceded by a sleep of the   *)
(* interval in force: the one the latest "pending" reply (or else the      *)
(* start reply) carried, 5 s when none did.  After a "pending" reply the   *)
(* loop goes on; the flow ends only on "ok", returning the session, or on  *)
(* a failure, raising an auth error with the detail the server gave.       *)
InForce(k) ==
    LET carriers == {j \in 1..(k - 1) : /\ flow.events[j].kind \in {"start", "poll"}
                                        /\ flow.events[j].interval # None}
    IN  IF carriers = {} THEN 5
        ELSE Get(flow.events[CHOOSE j \in carriers : \A i \in carriers : i <= j].interval)

C13_PollLoop ==
    LET e == flow.events
        n == Len(e)
    IN  /\ \A k \in DOMAIN e :
              e[k].kind = "poll"
              => (/\ k > 1
                  /\ e[k - 1].kind = "sleep"
                  /\ e[k - 1].interval = Some(InForce(k))
                  /\ e[k].flag = "pending" => (k < n \/ flow.pc = "sleep"))
        /\ (n > 0 /\ e[n].kind = "poll" /\ e[n].flag = "pending")
              => (flow.pc = "sleep" /\ flow.result.kind = "none")
        /\ flow.pc = "done"
              => (/\ n > 0
                  /\ e[n].kind \in {"start", "poll"}
                  /\ e[n].flag # "pending"
                  /\ flow.result.kind = "return"
                        <=> (e[n].kind = "poll" /\ e[n].flag = "ok")
                  /\ flow.result.kind = "return" => flow.result.session # None
                  /\ flow.result.kind # "return"
                        => (/\ flow.result.kind \in {"AuthError", "AuthHttpError"}
                            /\ e[n].detail # None
                                  => flow.result.msg \in {Get(e[n].detail), "Failed to reach"}))
        /\ flow.pc # "done" => flow.result.kind = "none"

C13_Witness ==
    /\ flow.pc = "done" /\ flow.result.kind = "return"
    /\ Len(flow.events) = 7
    /\ flow.events[1].interval = None
    /\ flow.events[2] = Ev("sleep", "", Some(5), None)
    /\ flow.events[3] = Ev("poll", "pending", Some(2), None)
    /\ flow.events[4] = Ev("sleep", "", Some(2), None)
    /\ flow.events[5] = Ev("poll", "pending", None, None)
    /\ flow.events[6] = Ev("sleep", "", Some(2), None)

(* C14: call(name) answered with an HTTP success and a JSON object returns *)
(* the object's result, None when result is absent or null; it raises      *)
(* RuntimeError with the detail when the object has detail and no result;  *)
(* with both it returns result.                                            *)
C14_CallResult ==
    (/\ dev.op = "call" /\ dev.pc = "done"
     /\ dev.reply.status = 200 /\ dev.reply.body.kind = "dict")
    => LET keys == dev.reply.body.keys
       IN  /\ "result" \in keys
                => (/\ dev.result.kind = "return"
                    /\ dev.result.value
                          = IF dev.reply.value = "null" THEN "None" ELSE dev.reply.value)
           /\ keys = {"detail"}
                => (dev.result.kind = "RuntimeError" /\ dev.result.msg = <<"D">>)
           /\ keys = {}
                => (dev.result.kind = "return" /\ dev.result.value = "None")

C14_Witness ==
    /\ dev.op = "call" /\ dev.pc = "done"
    /\ dev.reply = DevReply(200, Body("dict", {"result", "detail"}), "list")
    /\ dev.result = Outcome("return", <<>>, "list")

(* C16, as stated: every close() issues POST /devices/{name}/disconnect,   *)
(* also when the device's own teardown call raises.                        *)
C16_Original ==
    (dev.op = "close" /\ dev.pc = "done") => "disconnect" \in Range(dev.posts)

(* C19, as stated: for every raw response, normalizing it, persisting it   *)
(* and loading it again from the store gives a session with the same       *)
(* access token, refresh token and expiry values.                          *)
TripExpected ==
    LET issued == IF trip.raw.issued_at = -1 THEN trip.t0 ELSE trip.raw.issued_at
    IN  [access_token |-> trip.raw.access_token,
         refresh_token |-> trip.raw.refresh_token,
         access_token_expires_at |-> issued + trip.raw.access_token_expires_in,
         refresh_token_expires_at |-> issued + trip.raw.refresh_token_expires_in]

TripSame ==
    /\ trip.loaded # None
    /\ \A k \in DOMAIN TripExpected : Get(trip.loaded)[k] = TripExpected[k]

C19_Original ==
    trip.pc = "done" => TripSame

(* C19, amended: the round trip gives the same tokens and expiry values    *)
(* when the refresh token is not expired at the time of the load           *)
(* (refresh_token_expires_at > now + 30), and then leaves the store as it  *)
(* was; otherwise the load returns no session and removes the origin's     *)
(* entry from the store.                                                   *)
C19_RoundTrip ==
    trip.pc = "done"
    => IF TripExpected.refresh_token_expires_at > trip.t1 + 30
       THEN TripSame /\ trip.after = trip.file
       ELSE /\ trip.loaded = None
            /\ ReadFile(trip.after)["A"] = None
            /\ ReadFile(trip.after)["B"] = ReadFile(trip.file)["B"]

C19_Witness ==
    /\ trip.pc = "done"
    /\ trip.t1 = trip.t0 + 30
    /\ trip.raw.issued_at = 0
    /\ trip.loaded # None
    /\ Get(trip.loaded).access_token_expires_at = 40
    /\ Get(trip.loaded).refresh_token_expires_at = 90
    /\ ReadFile(trip.file)["B"] # None

(* C20, as stated: in every interleaving of the two requests each finishes *)
(* after at most two HTTP attempts and one reset, with no unhandled store  *)
(* error; once both have finished, the store entry for the origin is the   *)
(* complete session one of them wrote.                                     *)
C20_Original ==
    /\ \A p \in Procs :
          /\ proc[p].pc # "FileNotFoundError"
          /\ proc[p].attempts <= 2
          /\ proc[p].resets <= 1
    /\ (\A p \in Procs : proc[p].pc = "done")
          => (/\ tokenPath # 0
              /\ inodes[tokenPath].content \in {RaceDocument(p) : p \in Procs})

(* C21: a request whose first response has a status other than 401 (403    *)
(* and 500 included), or whose client has no AuthManager whatever the      *)
(* status, ends with that one HTTP attempt and no reset_session() call:    *)
(* the response goes to the caller's _json_or_raise as it was received.    *)
C21_OneAttempt ==
    (/\ call.op = "request"
     /\ HttpStatuses # <<>>
     /\ HttpStatuses[1] # 0
     /\ (HttpStatuses[1] # 401 \/ client.auth = None))
    => LET reply == LastOf(call.replies)
       IN  /\ call.pc = "done"
           /\ Count(call.log, "http") = 1
           /\ Count(call.log, "reset") = 0
           /\ Len(HttpStatuses) = 1
           /\ reply.to = "http"
           /\ call.result = ClientJsonOrRaise(Cfg, Resp(reply.status, reply.body))
           /\ (call.result.kind = "return" \/ call.result.msg = <<"HTTP">>)
                 => call.result.resp = Resp(reply.status, reply.body)

C21_Witness ==
    /\ call.op = "request" /\ call.pc = "done"
    /\ client.auth = None
    /\ HttpStatuses = <<401>>
    /\ call.result.resp.status = 401

(* C22: the device-code login has no timeout of its own.  A "pending"      *)
(* reply changes nothing but the count of polls and leads to the next      *)
(* sleep and poll, however many came before; the loop is left only by a    *)
(* poll reply that is not "pending" or by a failed request.  If the server *)
(* answers "ok" to some poll, the call ends, and a call ended by "ok"      *)
(* returns the new session, which is then in the store and in the cache.   *)
C22_Step ==
    /\ (call.pc = "poll" /\ call'.pc = "sleep")
          => (/\ mgr' = mgr /\ file' = file
              /\ call'.result = NoResult
              /\ call'.log = call.log /\ call'.replies = call.replies)
    /\ (call.pc = "sleep" /\ call' # call)
          => call' = [call EXCEPT !.pc = "poll"]
    /\ (call.pc \in {"poll", "sleep"} /\ call'.pc = "done")
          => (/\ call.pc = "poll"
              /\ GotReply
              /\ LastOf(call'.replies).to = "poll"
              /\ LastOf(call'.replies).body # Body("dict", {"pending"})
              /\ IF LastOf(call'.replies).body = Body("dict", {"ok"})
                 THEN /\ call'.result.kind = "return"
                      /\ mgr'[call.m].session # None
                      /\ mgr'[call.m].session # mgr[call.m].session
                      /\ StoreEntry(file', call.m) = mgr'[call.m].session
                      /\ call'.result.bearer
                            = Some(Get(mgr'[call.m].session).access_token)
                 ELSE /\ call'.result.kind \in {"AuthError", "AuthHttpError"}
                      /\ mgr' = mgr /\ file' = file)

C22_NoTimeout ==
    /\ [][C22_Step]_vars
    /\ (call.pc \in {"poll", "sleep"}) ~> (call.pc = "done")

C22_Witness ==
    /\ call.op = "authorization_header" /\ call.pc = "done"
    /\ call.polls = MaxPolls
    /\ call.result.kind = "return"
    /\ call.replies # <<>>
    /\ LastOf(call.replies).body = Body("dict", {"ok"})
    /\ StoreEntry(file, call.m) = mgr[call.m].session
    /\ call.result.bearer = Some(Get(mgr[call.m].session).access_token)

(* C23: a reply of an auth endpoint (token, start, poll) with a status     *)
(* >= 400 makes _request raise the HTTP auth error with that status and    *)
(* with the body's detail, else its error, else its message, else the raw  *)
(* text.  The call ends with that error, except where the refresh was      *)
(* answered 400 or 401, which _ensure_session handles.  No session gets    *)
(* into the cache or the store from such a reply.                          *)
C23_Step ==
    (/\ call.pc \in {"refresh", "start", "poll"}
     /\ GotReply
     /\ LastOf(call'.replies).status >= 400)
    => LET reply == LastOf(call'.replies)
           keys == IF reply.body.kind = "dict" THEN reply.body.keys ELSE {}
           detail == IF "detail" \in keys THEN "D"
                     ELSE IF "error" \in keys THEN "E"
                     ELSE IF "message" \in keys THEN "M"
                     ELSE "text"
           m == call.m
       IN  /\ AuthRequest(reply) = Raise("AuthHttpError", <<detail>>, reply.status)
           /\ mgr'[m].session \in {None, mgr[m].session}
           /\ StoreEntry(file', m) \in {None, StoreEntry(file, m)}
           /\ IF call.pc = "refresh" /\ reply.status \in {400, 401}
              THEN call'.pc \in {"start", "done"}
              ELSE /\ call'.pc = "done"
                   /\ call'.result = Raise("AuthHttpError", <<detail>>, reply.status)

C23_TypedError == [][C23_Step]_vars

C23_Witness ==
    /\ call.op = "authorization_header" /\ call.pc = "done"
    /\ call.replies # <<>>
    /\ LastOf(call.replies).to = "poll"
    /\ LastOf(call.replies).body = Body("dict", {"error", "message"})
    /\ call.result = Raise("AuthHttpError", <<"E">>, 500)
    /\ mgr[call.m].session = None

(* C24, as stated: _read_file of a token file that is missing, unreadable  *)
(* or not valid JSON raises no error and yields the empty mapping.         *)
C24_Original ==
    \A r \in Readers :
        /\ rd[r].pc # "UnicodeDecodeError"
        /\ (/\ rd[r].pc = "done"
            /\ rd[r].fd # 0 => ~Complete(inodes[rd[r].fd].content))
           => rd[r].result = "{}"

(* C25, as stated: in every state, through all the steps of _write_file,   *)
(* a file that holds session content, be it the token file or the temp     *)
(* file, is readable by its owner only.                                    *)
C25_Original ==
    \A i \in {tokenPath, tmpPath} \ {0} :
        inodes[i].content # <<>> => inodes[i].mode = "0600"

(* C26: after a first attempt answered 401, no refresh request follows the *)
(* reset.  A second attempt is sent only after a device-code flow run in   *)
(* between, and carries the access token of the session that flow gave,    *)
(* never the token of the first attempt.  With interactive login disabled  *)
(* the request ends after its one attempt with the authentication error,   *)
(* and neither the cache nor the store holds a session for the origin.     *)
C26_AfterReset ==
    (call.op = "request" /\ Count(call.log, "reset") = 1)
    => LET m == call.m
           r == CHOOSE i \in DOMAIN call.log : call.log[i] = "reset"
           after == SubSeq(call.log, r + 1, Len(call.log))
       IN  /\ "token" \notin Range(after)
           /\ "http" \in Range(after)
                 => (/\ mgr[m].interactive
                     /\ SubSeq(after, 1, 2) = <<"start", "poll">>
                     /\ Len(call.sent) = 2
                     /\ call.sent[2].bearer # None
                     /\ call.sent[2].bearer # call.sent[1].bearer
                     /\ mgr[m].session # None
                     /\ call.sent[2].bearer = Some(Get(mgr[m].session).access_token)
                     /\ \E i \in DOMAIN call.replies :
                           /\ call.replies[i].to = "poll"
                           /\ i < Len(call.replies) \/ call.replies[i].body = Body("dict", {"ok"}))
           /\ ~mgr[m].interactive
                 => (/\ call.pc = "done"
                     /\ Count(call.log, "http") = 1
                     /\ call.result = Raise("RuntimeError",
                                            <<"Authentication failed", "AuthError",
                                              "Authentication required">>, 0)
                     /\ mgr[m].session = None
                     /\ StoreEntry(file, m) = None)

C26_Witness ==
    /\ call.op = "request" /\ call.pc = "http"
    /\ call.log = <<"http", "reset", "start", "poll", "http">>
    /\ lifetimes = <<3600, 7200>> /\ now = 0
    /\ call.sent[1].bearer = Some(StoredBefore(lifetimes).access_token)
    /\ call.sent[2].bearer = Some(Get(mgr[call.m].session).access_token)
    /\ StoreEntry(file, call.m) = mgr[call.m].session

(* C27: with one manager and no other writer of the token file, at every   *)
(* moment a session in the cache is the store's entry for the origin, and  *)
(* an authorization_header() that returns gives "Bearer" with the access   *)
(* token of that session.                                                  *)
C27_Coherent ==
    /\ mgr["m1"].session # None
          => StoreEntry(file, "m1") = mgr["m1"].session
    /\ (call.op = "authorization_header" /\ call.pc = "done"
        /\ call.result.kind = "return")
          => (/\ mgr["m1"].session # None
              /\ call.result.msg = <<"Bearer">>
              /\ call.result.bearer = Some(Get(mgr["m1"].session).access_token))

C27_Witness ==
    /\ call.op = "authorization_header" /\ call.pc = "done"
    /\ call.result.kind = "return"
    /\ call.log = <<"token">>
    /\ now > 0
    /\ StoreEntry(file, "m1") = mgr["m1"].session
    /\ Get(mgr["m1"].session).issued_at = now

(* C28: no step of the managers for origin A (their calls and the client's *)
(* requests) changes the entry of another origin in a token file that is   *)
(* readable JSON; and a step before and after which the file has no entry  *)
(* for A, a _clear_session with nothing to clear among them, leaves the    *)
(* file as it is, unreadable if it was.                                    *)
C28_Step ==
    file' # file
    => (/\ file.state = "ok"
              => \A o \in Origins \ {"A"} : ReadFile(file')[o] = ReadFile(file)[o]
        /\ StoreEntry(file, "m1") # None \/ StoreEntry(file', "m1") # None)

C28_OtherOrigins == [][C28_Step]_vars

C28_Witness ==
    /\ call.op = "reset_session" /\ call.pc = "done"
    /\ minted = 2
    /\ file.state = "ok"
    /\ ReadFile(file)["B"] = Some(OtherOrigin)
    /\ StoreEntry(file, "m1") = None

(* C29: user_login() leaves the cache as it is and never writes a session: *)
(* the token file is unchanged, except that the entry for the origin is    *)
(* removed, and nothing else, exactly when the cache is empty and the      *)
(* stored session's refresh token is expired (within the skew of 30 s).    *)
C29_Step ==
    \A m \in Managers :
        (Began("user_login", m) /\ UserLoginCall(m))
        => LET entry == StoreEntry(file, m)
               removed == /\ mgr[m].session = None
                          /\ entry # None
                          /\ \/ Get(entry).refresh_token_expires_at = 0
                             \/ Get(entry).refresh_token_expires_at <= now + 30
           IN  /\ mgr' = mgr
               /\ IF removed
                  THEN /\ StoreEntry(file', m) = None
                       /\ \A o \in Origins \ {BaseUrl(m)} :
                             ReadFile(file')[o] = ReadFile(file)[o]
                  ELSE file' = file

C29_UserLoginFrame == [][C29_Step]_vars

C29_Witness ==
    /\ call.op = "user_login" /\ call.pc = "done"
    /\ call.enc # None
    /\ mgr[call.m].session = None
    /\ StoreEntry(file, call.m) = None
    /\ ReadFile(file)["B"] = Some(OtherOrigin)

(* C30: every request _perform_request sends has the method, the URL, the  *)
(* timeout and the body the caller gave; the retry differs from the first  *)
(* attempt in nothing but its headers, built by a second _headers() call   *)
(* made after the reset; the caller's keyword arguments stay as given.     *)
C30_SameRequest ==
    /\ req.kwargs = req.given
    /\ \A i \in DOMAIN req.wire :
          /\ req.wire[i].method = req.method
          /\ req.wire[i].url = req.url
          /\ req.wire[i].timeout = req.given.timeout
          /\ req.wire[i].payload = Kwargs(req.given.json, None)
          /\ req.wire[i].headers = BuiltHeaders(i, i - 1)
    /\ Len(req.wire) <= 2
    /\ Len(req.wire) = 2
          => (/\ req.resets = 1
              /\ req.wire[2] = [req.wire[1] EXCEPT !.headers = BuiltHeaders(2, 1)])

C30_Witness ==
    /\ req.pc = "done"
    /\ Len(req.wire) = 2
    /\ req.given = Kwargs(Some("J"), Some(5))
    /\ req.wire[2].timeout = Some(5)
    /\ req.result = 401

====
